---------------------------- MODULE Spec2Model ----------------------------
(***************************************************************************)
(* A model of the detection and scoring engine of the on-chain anomaly     *)
(* tracker: event normalisation, the sandwich, wash-trading, pool          *)
(* domination, pump-and-dump and insider detectors, and the risk engine.   *)
(*                                                                         *)
(* Money and prices are integers (whole USD, or hundredths where a score   *)
(* is rounded to two decimals); the source computes them in binary         *)
(* floating point.  Every detector has a specification of its own; the     *)
(* variables a specification does not use stay at Idle.                    *)
(***************************************************************************)
EXTENDS Integers, Sequences, FiniteSets, TLC

VARIABLES
    data,           \* the provider's response: the raw event batch(es)
    pc,             \* position of the call(s) in the handler
    result,         \* what the call(s) returned
    attacks_found,  \* SandwichAttackAnalyzer.attacks_found (instance attribute)
    heap,           \* the list objects attacks_found and the results refer to
    locals,         \* local variables of calls that are in progress
    now,            \* the wall clock read by datetime.now()
    config          \* the detector's constructor arguments

vars == <<data, pc, result, attacks_found, heap, locals, now, config>>

Idle == "idle"

----------------------------------------------------------------------------
(* Generic helpers *)

Abs(x) == IF x < 0 THEN -x ELSE x

Min(a, b) == IF a <= b THEN a ELSE b

Max(a, b) == IF a >= b THEN a ELSE b

\* sum(...) of a sequence, by halves.
RECURSIVE SumSeq(_)
SumSeq(s) ==
    IF Len(s) = 0 THEN 0
    ELSE IF Len(s) = 1 THEN s[1]
    ELSE SumSeq(SubSeq(s, 1, Len(s) \div 2))
         + SumSeq(SubSeq(s, Len(s) \div 2 + 1, Len(s)))

RECURSIVE Flatten(_)
Flatten(ss) == IF ss = <<>> THEN <<>> ELSE Head(ss) \o Flatten(Tail(ss))

\* The distinct values of a field over s, in order of first appearance
\* (the key order of a dict or defaultdict filled by one pass over s).
KeysInOrder(s, field) ==
    LET firsts == {i \in DOMAIN s : \A j \in 1..(i - 1) : s[j][field] # s[i][field]}
    IN  [k \in 1..Cardinality(firsts) |->
            s[CHOOSE i \in firsts : Cardinality({j \in firsts : j < i}) = k - 1][field]]

\* list.sort(key=..., reverse=desc) on a field: a stable insertion sort
\* (with reverse=True equal elements keep their order too).
RECURSIVE InsertSorted(_, _, _, _)
InsertSorted(x, s, field, desc) ==
    IF s = <<>> THEN <<x>>
    ELSE IF (IF desc THEN x[field] > Head(s)[field] ELSE x[field] < Head(s)[field])
         THEN <<x>> \o s
         ELSE <<Head(s)>> \o InsertSorted(x, Tail(s), field, desc)

RECURSIVE SortBy(_, _, _)
SortBy(s, field, desc) ==
    IF s = <<>> THEN <<>>
    ELSE InsertSorted(s[Len(s)], SortBy(SubSeq(s, 1, Len(s) - 1), field, desc),
                      field, desc)

----------------------------------------------------------------------------
(* Raw provider events and their normalisation (_parse_swap) *)

\* str.lower() on the wallet addresses of the model.
Lower(w) ==
    CASE w = "0xA" -> "0xa"
      [] w = "0xB" -> "0xb"
      [] w = "0xC" -> "0xc"
      [] OTHER -> w

\* The keys _parse_swap reads with swap_data[...] (pairLabel is read with .get).
MandatoryKeys ==
    {"transactionHash", "transactionIndex", "transactionType", "blockNumber",
     "blockTimestamp", "walletAddress", "pairAddress", "baseToken", "quoteToken",
     "bought.amount", "bought.symbol", "sold.amount", "sold.symbol",
     "totalValueUsd", "baseQuotePrice"}

\* The fields _parse_swap passes through float().
FloatKeys == {"bought.amount", "sold.amount", "baseQuotePrice"}

\* A raw event: the values of its fields, the keys that are absent from the
\* dict, those that hold null and those that hold a text that is no number.
RawSwap(hash, idx, type, block, ts, wallet, pair, bought, sold, usd, price, sub) ==
    [transactionHash |-> hash, transactionIndex |-> idx, transactionType |-> type,
     blockNumber |-> block, blockTimestamp |-> ts, walletAddress |-> wallet,
     pairAddress |-> pair, boughtAmount |-> bought, soldAmount |-> sold,
     totalValueUsd |-> usd, baseQuotePrice |-> price, subCategory |-> sub,
     baseToken |-> "0xT1", boughtSymbol |-> "T1",
     absent |-> {}, null |-> {}, text |-> {}]

\* The exception an expression of _parse_swap raises on raw, or "none".
ParseError(raw) ==
    IF raw.absent \cap MandatoryKeys # {} THEN "KeyError"
    ELSE IF "walletAddress" \in raw.null THEN "AttributeError"
    ELSE IF raw.null \cap FloatKeys # {} THEN "TypeError"
    ELSE IF raw.text \cap FloatKeys # {} THEN "ValueError"
    ELSE "none"

\* SandwichAttackAnalyzer._parse_swap: total_value_usd is taken as it comes,
\* the three float() fields are converted, sold_amount through abs().
ParseSwap(raw) ==
    [ok |-> ParseError(raw) = "none",
     error |-> ParseError(raw),
     tx |-> [transaction_hash |-> raw.transactionHash,
             transaction_index |-> raw.transactionIndex,
             transaction_type |-> raw.transactionType,
             block_number |-> raw.blockNumber,
             block_timestamp |-> raw.blockTimestamp,
             wallet_address |-> Lower(raw.walletAddress),
             pair_address |-> raw.pairAddress,
             base_token |-> raw.baseToken,
             bought_amount |-> raw.boughtAmount,
             bought_symbol |-> raw.boughtSymbol,
             sold_amount |-> Abs(raw.soldAmount),
             total_value_usd |-> raw.totalValueUsd,
             total_value_kind |-> IF "totalValueUsd" \in raw.null THEN "null"
                                  ELSE IF "totalValueUsd" \in raw.text THEN "text"
                                  ELSE "number",
             base_quote_price |-> raw.baseQuotePrice,
             sub_category |-> IF "subCategory" \in raw.absent THEN ""
                              ELSE raw.subCategory]]

\* swaps = [self._parse_swap(swap) for swap in data['result']]: the first
\* record that raises ends the comprehension and the call.
ParseAll(batch) ==
    IF \E i \in DOMAIN batch : ~ParseSwap(batch[i]).ok
    THEN [ok |-> FALSE,
          error |-> ParseSwap(batch[CHOOSE i \in DOMAIN batch :
                        /\ ~ParseSwap(batch[i]).ok
                        /\ \A j \in 1..(i - 1) : ParseSwap(batch[j]).ok]).error,
          swaps |-> <<>>]
    ELSE [ok |-> TRUE, error |-> "none",
          swaps |-> [i \in DOMAIN batch |-> ParseSwap(batch[i]).tx]]

----------------------------------------------------------------------------
(* SandwichAttackAnalyzer *)

\* _group_by_block: block number -> the block's events sorted by index.
GroupByBlock(swaps) ==
    [b \in {swaps[i].block_number : i \in DOMAIN swaps} |->
        SortBy(SelectSeq(swaps, LAMBDA s : s.block_number = b),
               "transaction_index", FALSE)]

CalculateProfitMutAbs(front_run, back_run) ==
    Abs(back_run.total_value_usd - front_run.total_value_usd)
CalculateProfit(front_run, back_run) ==
    back_run.total_value_usd - front_run.total_value_usd

SandwichAttack(attacker, front_run, victim_tx, back_run) ==
    [attacker_address |-> attacker,
     victim_address |-> victim_tx.wallet_address,
     block_number |-> front_run.block_number,
     front_run_tx |-> front_run,
     victim_tx |-> victim_tx,
     back_run_tx |-> back_run,
     profit_usd |-> CalculateProfit(front_run, back_run),
     attack_timestamp |-> front_run.block_timestamp]

\* A victim must be on the front-run's pair (mutant: the pair is not compared).
IsVictimMutAnyPair(tx, attacker, front_run, back_run) ==
    /\ tx.wallet_address # attacker
    /\ front_run.transaction_index < tx.transaction_index
    /\ tx.transaction_index < back_run.transaction_index

IsVictim(tx, attacker, front_run, back_run) ==
    /\ tx.wallet_address # attacker
    /\ tx.pair_address = front_run.pair_address
    /\ front_run.transaction_index < tx.transaction_index
    /\ tx.transaction_index < back_run.transaction_index

\* The pair of an attacker's event i with the attacker's last event.
PairAttacksMutLast(attacker, attacker_txs, i, transactions) ==
    LET front_run == attacker_txs[i]
        back_run == attacker_txs[Len(attacker_txs)]
    IN  IF /\ front_run.transaction_type = "buy"
           /\ back_run.transaction_type = "sell"
           /\ front_run.pair_address = back_run.pair_address
        THEN LET victims == SelectSeq(transactions,
                     LAMBDA tx : IsVictim(tx, attacker, front_run, back_run))
             IN  [k \in DOMAIN victims |->
                     SandwichAttack(attacker, front_run, victims[k], back_run)]
        ELSE <<>>

\* The findings of one adjacent pair (i, i+1) of an attacker's events.
PairAttacks(attacker, attacker_txs, i, transactions) ==
    LET front_run == attacker_txs[i]
        back_run == attacker_txs[i + 1]
    IN  IF /\ front_run.transaction_type = "buy"
           /\ back_run.transaction_type = "sell"
           /\ front_run.pair_address = back_run.pair_address
        THEN LET victims == SelectSeq(transactions,
                     LAMBDA tx : IsVictim(tx, attacker, front_run, back_run))
             IN  [k \in DOMAIN victims |->
                     SandwichAttack(attacker, front_run, victims[k], back_run)]
        ELSE <<>>

\* _detect_sandwich_in_block
DetectSandwichInBlock(transactions) ==
    LET wallets == KeysInOrder(transactions, "wallet_address")
        wallet_txs(w) == SelectSeq(transactions, LAMBDA tx : tx.wallet_address = w)
        potential_attackers == SelectSeq(wallets, LAMBDA w : Len(wallet_txs(w)) >= 2)
    IN  Flatten([a \in DOMAIN potential_attackers |->
            Flatten([i \in 1..(Len(wallet_txs(potential_attackers[a])) - 1) |->
                PairAttacks(potential_attackers[a],
                            wallet_txs(potential_attackers[a]), i, transactions)])])

\* sorted(blocks.items(), reverse=True): the block numbers, highest first.
RECURSIVE BlocksDescending(_)
BlocksDescending(bs) ==
    IF bs = {} THEN <<>>
    ELSE LET top == CHOOSE b \in bs : \A c \in bs : c <= b
         IN  <<top>> \o BlocksDescending(bs \ {top})

\* The findings of one block of the loop of analyze (blocks of fewer than
\* three events are skipped).
BlockAttacks(block_txs) ==
    IF Len(block_txs) >= 3 THEN DetectSandwichInBlock(block_txs) ELSE <<>>

\* The position, in the order of the loop of analyze, of the first block
\* in which _calculate_profit raises TypeError (the total value of a front
\* run or back run with a victim is null or a text), or 0.
FirstRaisingBlock(swaps) ==
    LET blocks == GroupByBlock(swaps)
        order == BlocksDescending(DOMAIN blocks)
        raises(k) == \E i \in DOMAIN BlockAttacks(blocks[order[k]]) :
                        LET attack == BlockAttacks(blocks[order[k]])[i]
                        IN  \/ attack.front_run_tx.total_value_kind # "number"
                            \/ attack.back_run_tx.total_value_kind # "number"
    IN  IF \E k \in DOMAIN order : raises(k)
        THEN CHOOSE k \in DOMAIN order : raises(k) /\ \A j \in 1..(k - 1) : ~raises(j)
        ELSE 0

\* What the loop of analyze gathers over the blocks of swaps, all of them or
\* those before the block that raises.
SandwichFindings(swaps) ==
    LET blocks == GroupByBlock(swaps)
        order == BlocksDescending(DOMAIN blocks)
        last == IF FirstRaisingBlock(swaps) = 0 THEN Len(order)
                ELSE FirstRaisingBlock(swaps) - 1
    IN  Flatten([k \in 1..last |-> BlockAttacks(blocks[order[k]])])

----------------------------------------------------------------------------
(* One call of the sandwich analyzer *)

MaxIdx == 2          \* transaction indices of a block: 0..MaxIdx

\* The well-formed raw event of block b at index i.
SlotSwap(b, i, type, wallet, pair) ==
    RawSwap(<<b, i>>, i, type, b, b, wallet, pair, 1, 1, 100, 1, "")

\* Every way to fill the slots i, i-1, .., 0 of block b, each with no event
\* or with a buy or sell of one of four raw addresses on one of two pairs;
\* the provider answers in descending order, highest index first.
RECURSIVE BlockBatches(_, _)
BlockBatches(b, i) ==
    IF i < 0 THEN {<<>>}
    ELSE LET swaps == {<<SlotSwap(b, i, ty, w, p)>> :
                          ty \in {"buy", "sell"},
                          w \in {"0xa", "0xA", "0xb", "0xc"},
                          p \in {"P", "Q"}}
         IN  {c \o rest : c \in {<<>>} \cup swaps, rest \in BlockBatches(b, i - 1)}

\* Block 2 is absent, or holds a sandwich of 0xb by 0xc on pair P.
SecondBlockBatches ==
    {<<>>,
     <<SlotSwap(2, 2, "sell", "0xc", "P"), SlotSwap(2, 1, "buy", "0xb", "P"),
       SlotSwap(2, 0, "buy", "0xc", "P")>>}

\* The batches whose first block has slots 0..max_idx.
SandwichBatches(max_idx) ==
    {hi \o lo : hi \in SecondBlockBatches, lo \in BlockBatches(1, max_idx)}

Unset == 0

\* The list a reference stands for.
Deref(ref) == heap[ref]

InitSandwich ==
    /\ data \in SandwichBatches(MaxIdx)
    /\ pc = 0
    /\ result = [raised |-> FALSE, error |-> "none", ref |-> Unset]
    /\ attacks_found = Unset
    /\ heap = <<>>
    /\ locals = Idle
    /\ now = Idle
    /\ config = Idle

\* SandwichAttackAnalyzer.analyze with verbose=False, from the fetch to the
\* return; what it prints is not part of the state.
AnalyzeSandwich ==
    /\ pc = 0
    /\ pc' = 1
    /\ LET parsed == ParseAll(data)
       IN  IF parsed.ok
           THEN /\ heap' = Append(heap, SandwichFindings(parsed.swaps))
                /\ attacks_found' = Len(heap) + 1
                /\ result' = IF FirstRaisingBlock(parsed.swaps) = 0
                             THEN [raised |-> FALSE, error |-> "none",
                                   ref |-> Len(heap) + 1]
                             ELSE [raised |-> TRUE, error |-> "TypeError",
                                   ref |-> Unset]
           ELSE /\ result' = [raised |-> TRUE, error |-> parsed.error, ref |-> Unset]
                /\ UNCHANGED <<heap, attacks_found>>
    /\ UNCHANGED <<data, locals, now, config>>

SpecSandwich == InitSandwich /\ [][AnalyzeSandwich]_vars

\* The raw events of block b of the batch, and the one at index i.
RawBlock(b) == {data[k] : k \in {j \in DOMAIN data : data[j].blockNumber = b}}

RawAt(b, i) == CHOOSE e \in RawBlock(b) : e.transactionIndex = i

\* Block b holds exactly three events, at indices 0, 1 and 2: a buy at 0 and
\* a sell at 2 of one wallet on one pair, and a trade of another wallet at 1.
IsTripleBlock(b) ==
    /\ Cardinality({k \in DOMAIN data : data[k].blockNumber = b}) = 3
    /\ {e.transactionIndex : e \in RawBlock(b)} = {0, 1, 2}
    /\ RawAt(b, 0).transactionType = "buy"
    /\ RawAt(b, 2).transactionType = "sell"
    /\ Lower(RawAt(b, 0).walletAddress) = Lower(RawAt(b, 2).walletAddress)
    /\ RawAt(b, 0).pairAddress = RawAt(b, 2).pairAddress
    /\ Lower(RawAt(b, 1).walletAddress) # Lower(RawAt(b, 0).walletAddress)

\* The findings a finished call returned for block b.
ReturnedFor(b) == SelectSeq(Deref(result.ref), LAMBDA a : a.block_number = b)

\* C1: in a block of exactly three events (indices 0, 1, 2) where wallet A
\* buys at 0 and sells at 2 on pair P and another wallet B trades at 1, the
\* analyzer returns exactly one attack (attacker A, victim B) if B's trade
\* is on P, and none if it is on another pair.
C1_SandwichTriple ==
    (pc = 1 /\ ~result.raised) =>
        \A b \in {data[k].blockNumber : k \in DOMAIN data} :
            IsTripleBlock(b) =>
                IF RawAt(b, 1).pairAddress = RawAt(b, 0).pairAddress
                THEN /\ Len(ReturnedFor(b)) = 1
                     /\ ReturnedFor(b)[1].attacker_address
                            = Lower(RawAt(b, 0).walletAddress)
                     /\ ReturnedFor(b)[1].victim_address
                            = Lower(RawAt(b, 1).walletAddress)
                     /\ ReturnedFor(b)[1].victim_tx.transaction_hash
                            = RawAt(b, 1).transactionHash
                ELSE ReturnedFor(b) = <<>>

\* A call has returned the one attack of a three-event block that is the
\* whole batch.
C1_Witness ==
    /\ pc = 1
    /\ ~result.raised
    /\ Len(data) = 3
    /\ IsTripleBlock(1)
    /\ RawAt(1, 1).pairAddress = RawAt(1, 0).pairAddress
    /\ Len(Deref(result.ref)) = 1

----------------------------------------------------------------------------
(* One analyze call on a batch that is one block of up to MaxSlot + 1 events *)

MaxSlot == 3         \* transaction indices of the block: 0..MaxSlot

\* Each index of block 1 holds no event or a buy or sell of one of two
\* wallets on one of two pairs; the provider answers highest index first.
InitBlock ==
    /\ \E fill \in [0..MaxSlot -> {<<>>} \cup
                        {<<ty, w, p>> : ty \in {"buy", "sell"},
                                       w \in {"0xa", "0xb"}, p \in {"P", "Q"}}] :
          data = Flatten([k \in 1..(MaxSlot + 1) |->
                    IF fill[MaxSlot + 1 - k] = <<>> THEN <<>>
                    ELSE <<SlotSwap(1, MaxSlot + 1 - k, fill[MaxSlot + 1 - k][1],
                                    fill[MaxSlot + 1 - k][2],
                                    fill[MaxSlot + 1 - k][3])>>])
    /\ pc = 0
    /\ result = [raised |-> FALSE, error |-> "none", ref |-> Unset]
    /\ attacks_found = Unset
    /\ heap = <<>>
    /\ locals = Idle
    /\ now = Idle
    /\ config = Idle

SpecBlock == InitBlock /\ [][AnalyzeSandwich]_vars

\* The findings the rule gives for the block, as <<front-run index, victim
\* index, back-run index>>: f and k are two events of one wallet with no
\* event of that wallet between them, a buy and then a sell on one pair,
\* and v is an event of another wallet on that pair strictly between.
ExpectedInBlock ==
    {t \in (DOMAIN data) \X (DOMAIN data) \X (DOMAIN data) :
        LET f == data[t[1]]
            v == data[t[2]]
            k == data[t[3]]
        IN  /\ Lower(f.walletAddress) = Lower(k.walletAddress)
            /\ f.transactionIndex < k.transactionIndex
            /\ ~\E j \in DOMAIN data :
                    /\ Lower(data[j].walletAddress) = Lower(f.walletAddress)
                    /\ f.transactionIndex < data[j].transactionIndex
                    /\ data[j].transactionIndex < k.transactionIndex
            /\ f.transactionType = "buy"
            /\ k.transactionType = "sell"
            /\ f.pairAddress = k.pairAddress
            /\ Lower(v.walletAddress) # Lower(f.walletAddress)
            /\ v.pairAddress = f.pairAddress
            /\ f.transactionIndex < v.transactionIndex
            /\ v.transactionIndex < k.transactionIndex}

\* C16: the findings of a block are exactly one per victim event strictly
\* between a buy and a sell on one pair that are consecutive in their
\* wallet's events sorted by index; a buy and a sell with another event of
\* the wallet between them form no pair, and no victim is at or outside the
\* two attacker indices.
C16_FindingsOfBlockExact ==
    pc = 1 =>
        /\ Len(Deref(result.ref)) = Cardinality(ExpectedInBlock)
        /\ {<<a.front_run_tx.transaction_hash, a.victim_tx.transaction_hash,
               a.back_run_tx.transaction_hash, a.attacker_address, a.victim_address>> :
                a \in {Deref(result.ref)[i] : i \in DOMAIN Deref(result.ref)}}
           = {<<data[t[1]].transactionHash, data[t[2]].transactionHash,
                data[t[3]].transactionHash, Lower(data[t[1]].walletAddress),
                Lower(data[t[2]].walletAddress)>> : t \in ExpectedInBlock}

\* 0xa buys at 0, 0xb trades at 1, 0xa buys again at 2 and sells at 3, all
\* on one pair: the buy at 0 and the sell at 3 are not paired and nothing
\* is found.
C16_Witness ==
    /\ pc = 1
    /\ Len(data) = 4
    /\ \A i \in 1..4 : data[i].pairAddress = "P"
    /\ data[4].transactionType = "buy" /\ data[4].walletAddress = "0xa"
    /\ data[3].walletAddress = "0xb"
    /\ data[2].transactionType = "buy" /\ data[2].walletAddress = "0xa"
    /\ data[1].transactionType = "sell" /\ data[1].walletAddress = "0xa"
    /\ Deref(result.ref) = <<>>

----------------------------------------------------------------------------
(* Two overlapping calls of analyze on one SandwichAttackAnalyzer *)

Calls == {1, 2}

\* A sandwich of 0xb by 0xa on pair Q in block 1.
LowSandwich ==
    <<SlotSwap(1, 2, "sell", "0xa", "Q"), SlotSwap(1, 1, "sell", "0xb", "Q"),
      SlotSwap(1, 0, "buy", "0xa", "Q")>>

ConcurrentBatches == SecondBlockBatches \cup {hi \o LowSandwich : hi \in SecondBlockBatches}

InitConcurrent ==
    /\ data \in [Calls -> ConcurrentBatches]
    /\ pc = [c \in Calls |-> "fetch"]
    /\ result = [c \in Calls |-> Unset]
    /\ locals = [c \in Calls |-> <<>>]
    /\ attacks_found = Unset
    /\ heap = <<>>
    /\ now = Idle
    /\ config = Idle

\* Lines 245-251: fetch, parse and group; all of it local to the call.
\* locals[c] is the list of blocks the loop still has to visit.
FetchAndGroup(c) ==
    /\ pc[c] = "fetch"
    /\ LET blocks == GroupByBlock(ParseAll(data[c]).swaps)
           order == BlocksDescending(DOMAIN blocks)
       IN  locals' = [locals EXCEPT ![c] = [k \in DOMAIN order |-> blocks[order[k]]]]
    /\ pc' = [pc EXCEPT ![c] = "reset"]
    /\ UNCHANGED <<data, result, attacks_found, heap, now, config>>

\* Line 257: self.attacks_found = [] binds the attribute to a new list.
ResetAttacksFound(c) ==
    /\ pc[c] = "reset"
    /\ heap' = Append(heap, <<>>)
    /\ attacks_found' = Len(heap) + 1
    /\ pc' = [pc EXCEPT ![c] = "loop"]
    /\ UNCHANGED <<data, result, locals, now, config>>

\* Lines 260-266: one block of the loop; its findings are appended to the
\* list the attribute is bound to at that moment.
VisitBlock(c) ==
    /\ pc[c] = "loop"
    /\ locals[c] # <<>>
    /\ LET attacks == BlockAttacks(Head(locals[c]))
       IN  heap' = IF attacks # <<>>
                   THEN [heap EXCEPT ![attacks_found] = @ \o attacks]
                   ELSE heap
    /\ locals' = [locals EXCEPT ![c] = Tail(@)]
    /\ UNCHANGED <<data, pc, result, attacks_found, now, config>>

\* Lines 273-275: the loop is over; return self.attacks_found.
ReturnAttacksFound(c) ==
    /\ pc[c] = "loop"
    /\ locals[c] = <<>>
    /\ result' = [result EXCEPT ![c] = attacks_found]
    /\ pc' = [pc EXCEPT ![c] = "done"]
    /\ UNCHANGED <<data, locals, attacks_found, heap, now, config>>

NextConcurrent ==
    \E c \in Calls :
        \/ FetchAndGroup(c)
        \/ ResetAttacksFound(c)
        \/ VisitBlock(c)
        \/ ReturnAttacksFound(c)

SpecConcurrent == InitConcurrent /\ [][NextConcurrent]_vars

\* C9: two overlapping analyze calls on one analyzer each return exactly
\* the findings of their own batch.
C9_OverlappingCallsIndependent ==
    \A c \in Calls :
        pc[c] = "done" =>
            Deref(result[c]) = SandwichFindings(ParseAll(data[c]).swaps)

----------------------------------------------------------------------------
(* InsiderTradingDetector.  Times are minutes; a price change in percent   *)
(* is the pair <<numerator, denominator>> of (latest - entry) * 100 / entry. *)

\* The first element of s with the least (greatest) value of a field:
\* min(s, key=...) and max(s, key=...).
FirstExtreme(s, field, greatest) ==
    s[CHOOSE i \in DOMAIN s :
        /\ \A j \in DOMAIN s :
              IF greatest THEN s[j][field] <= s[i][field]
                          ELSE s[j][field] >= s[i][field]
        /\ \A j \in 1..(i - 1) : s[j][field] # s[i][field]]

\* Lines 193-203: the text of the time since the entry, as <<number, unit>>.
\* A timedelta holds floor(diff / 1 day) days and the rest in seconds.
TimeSinceEntry(entry_time, clock) ==
    LET diff == clock - entry_time
        days == diff \div 1440
        rest == diff % 1440
    IN  IF days > 0 THEN <<days, "days">>
        ELSE IF rest \div 60 > 0 THEN <<rest \div 60, "hours">>
        ELSE <<rest, "minutes">>

\* pct > bound, for pct = <<n, d>> with d > 0.
PctAbove(pct, bound) == pct[1] > bound * pct[2]

\* _calculate_suspicion_score
CalculateSuspicionScoreMutInclusive(trade) ==
    Min(100,
        (IF PctAbove(trade.price_change_percent, 50) THEN 30
         ELSE IF PctAbove(trade.price_change_percent, 30) THEN 20
         ELSE IF PctAbove(trade.price_change_percent, 15) THEN 10 ELSE 0)
      + (IF trade.entry_transaction.sub_category = "newPosition" THEN 15 ELSE 0)
      + (IF trade.entry_transaction.total_value_usd > 50000 THEN 20
         ELSE IF trade.entry_transaction.total_value_usd >= 10000 THEN 10 ELSE 0)
      + (IF trade.time_since_entry[2] \in {"hours", "minutes"} THEN 15 ELSE 0))
CalculateSuspicionScore(trade) ==
    Min(100,
        (IF PctAbove(trade.price_change_percent, 50) THEN 30
         ELSE IF PctAbove(trade.price_change_percent, 30) THEN 20
         ELSE IF PctAbove(trade.price_change_percent, 15) THEN 10 ELSE 0)
      + (IF trade.entry_transaction.sub_category = "newPosition" THEN 15 ELSE 0)
      + (IF trade.entry_transaction.total_value_usd > 50000 THEN 20
         ELSE IF trade.entry_transaction.total_value_usd > 10000 THEN 10 ELSE 0)
      + (IF trade.time_since_entry[2] \in {"hours", "minutes"} THEN 15 ELSE 0))

\* _get_flags
GetFlags(trade) ==
    (IF PctAbove(trade.price_change_percent, 50) THEN <<"MASSIVE GAINS (>50%)">>
     ELSE IF PctAbove(trade.price_change_percent, 30) THEN <<"Large gains (>30%)">>
     ELSE <<>>)
 \o (IF trade.entry_transaction.sub_category = "newPosition"
     THEN <<"New position entry">> ELSE <<>>)
 \o (IF trade.entry_transaction.total_value_usd > 50000
     THEN <<"Large position (>$50k)">>
     ELSE IF trade.entry_transaction.total_value_usd > 10000
     THEN <<"Significant position (>$10k)">> ELSE <<>>)
 \o (IF trade.time_since_entry[2] \in {"hours", "minutes"}
     THEN <<"Quick profit">> ELSE <<>>)

\* Lines 183-222: the InsiderTrade of one token's buys, scored and flagged.
InsiderTrade(token, buys, clock) ==
    LET entry == FirstExtreme(buys, "block_number", FALSE)
        latest == FirstExtreme(buys, "block_number", TRUE)
        trade == [token_address |-> token,
                  token_symbol |-> entry.bought_symbol,
                  entry_transaction |-> entry,
                  current_position_value |-> latest.total_value_usd,
                  entry_price |-> entry.base_quote_price,
                  current_price |-> latest.base_quote_price,
                  price_change_percent |->
                      <<(latest.base_quote_price - entry.base_quote_price) * 100,
                        entry.base_quote_price>>,
                  time_since_entry |-> TimeSinceEntry(entry.block_timestamp, clock)]
    IN  [f \in DOMAIN trade \cup {"suspicion_score", "flags"} |->
            IF f = "suspicion_score" THEN CalculateSuspicionScore(trade)
            ELSE IF f = "flags" THEN GetFlags(trade)
            ELSE trade[f]]

\* InsiderTradingDetector.analyze_wallet on the parsed swaps: positions keyed
\* by the token bought, in order of first purchase; an entry price of 0
\* raises ZeroDivisionError at line 191.
InsiderAnalyzeWallet(swaps, min_suspicion_score, clock) ==
    LET buys == SelectSeq(swaps, LAMBDA s : s.transaction_type = "buy")
        keyed == [i \in DOMAIN buys |->
                    [token_key |-> <<buys[i].base_token, buys[i].bought_symbol>>]]
        tokens == KeysInOrder(keyed, "token_key")
        buysOf(k) == SelectSeq(buys,
                        LAMBDA s : <<s.base_token, s.bought_symbol>> = tokens[k])
    IN  IF \E k \in DOMAIN tokens :
               FirstExtreme(buysOf(k), "block_number", FALSE).base_quote_price = 0
        THEN [raised |-> TRUE, error |-> "ZeroDivisionError", trades |-> <<>>]
        ELSE [raised |-> FALSE, error |-> "none",
              trades |->
                SortBy(SelectSeq([k \in DOMAIN tokens |->
                                     InsiderTrade(tokens[k][1], buysOf(k), clock)],
                                 LAMBDA tr : tr.suspicion_score >= min_suspicion_score),
                       "suspicion_score", TRUE)]

----------------------------------------------------------------------------
(* One detector instance run several times on the same batch *)

MaxRuns == 2         \* calls on the instance

\* The moments (minutes) at which a run may start.
ClockTimes == {30, 90, 1430, 1450, 2900}

\* A buy of a wallet's history: block b, made at minute ts.
WalletBuy(b, ts, token, usd, price, sub) ==
    [RawSwap(<<b, 0>>, 0, "buy", b, ts, "0xa", "P", 1, 1, usd, price, sub)
        EXCEPT !.baseToken = token[1], !.boughtSymbol = token[2]]

\* Two buys of token 0xT1 (the entry at minute 0 and a later one), with or
\* without a buy of a second token; the provider answers latest first.
InsiderBatches ==
    {other \o <<WalletBuy(2, 20, <<"0xT1", "T1">>, 1000, latest_price, "accumulation"),
                WalletBuy(1, 0, <<"0xT1", "T1">>, usd, 100, sub)>> :
        other \in {<<>>, <<WalletBuy(3, 25, <<"0xT2", "T2">>, 60000, 100, "newPosition")>>},
        latest_price \in {100, 120, 140, 160},
        usd \in {5000, 20000, 60000},
        sub \in {"newPosition", "accumulation"}}

InitRerun ==
    /\ config \in [detector : {"sandwich"}, min_suspicion_score : {0}]
                  \cup [detector : {"insider"}, min_suspicion_score : {20, 30}]
    /\ data \in (IF config.detector = "sandwich" THEN ConcurrentBatches
                 ELSE InsiderBatches)
    /\ now \in ClockTimes
    /\ pc = 0
    /\ result = <<>>
    /\ attacks_found = Unset
    /\ heap = <<>>
    /\ locals = Idle

\* Time passes between two runs.
Tick ==
    /\ \E t \in ClockTimes : t > now /\ now' = t
    /\ UNCHANGED <<data, pc, result, attacks_found, heap, locals, config>>

\* SandwichAttackAnalyzer.analyze, once more on the same instance.
RunSandwich ==
    /\ config.detector = "sandwich"
    /\ pc < MaxRuns
    /\ pc' = pc + 1
    /\ heap' = Append(heap, SandwichFindings(ParseAll(data).swaps))
    /\ attacks_found' = Len(heap) + 1
    /\ result' = Append(result, SandwichFindings(ParseAll(data).swaps))
    /\ UNCHANGED <<data, locals, now, config>>

\* InsiderTradingDetector.analyze_wallet, once more on the same instance.
RunInsider ==
    /\ config.detector = "insider"
    /\ pc < MaxRuns
    /\ pc' = pc + 1
    /\ result' = Append(result,
            InsiderAnalyzeWallet(ParseAll(data).swaps,
                                 config.min_suspicion_score, now).trades)
    /\ UNCHANGED <<data, attacks_found, heap, locals, now, config>>

NextRerun == Tick \/ RunSandwich \/ RunInsider

SpecRerun == InitRerun /\ [][NextRerun]_vars

\* What an insider finding says about a token: its score and its flags.
ScoresAndFlags(trades) ==
    [k \in DOMAIN trades |->
        <<trades[k].token_address, trades[k].suspicion_score, trades[k].flags>>]

\* C8: running the same detector twice on the same batch returns identical
\* findings, also on one instance and at different times: the sandwich
\* findings of a second run are those of the first, and the insider scores
\* and flags do not depend on the moment of the run.
C8_RerunIdentical ==
    \A i, j \in DOMAIN result :
        IF config.detector = "insider"
        THEN ScoresAndFlags(result[i]) = ScoresAndFlags(result[j])
        ELSE result[i] = result[j]

----------------------------------------------------------------------------
(* WashTradingDetector, over raw events.  Times are minutes, the price      *)
(* deviation threshold is in percent, amounts are whole dollars.            *)

\* WashTradingDetector.__init__ with its defaults for the window and the
\* price deviation.
WashTradingDetectorInit(min_round_trips, min_same_block_trades, min_volume_threshold) ==
    [time_window |-> 60,
     min_round_trips |-> min_round_trips,
     price_threshold |-> 2,
     min_same_block |-> min_same_block_trades,
     min_volume |-> min_volume_threshold]

\* pd.to_numeric(errors='coerce') leaves NaN for a price that is no number.
PriceIsNaN(raw) == "baseQuotePrice" \in raw.absent \cup raw.null \cup raw.text

\* abs(bp - sp) / bp <= threshold in float64: a zero bp gives inf or nan
\* (never <=), a negative bp a ratio that is not positive.
PriceDiffWithin(bp, sp, threshold) ==
    IF bp > 0 THEN Abs(bp - sp) * 100 <= threshold * bp
    ELSE bp < 0

\* Lines 165-172 with a window that excludes its end.
IsRoundTripMutOpenWindow(buy, sell, cfg) ==
    /\ sell.blockTimestamp >= buy.blockTimestamp
    /\ sell.blockTimestamp < buy.blockTimestamp + cfg.time_window
    /\ ~PriceIsNaN(buy) /\ ~PriceIsNaN(sell)
    /\ PriceDiffWithin(buy.baseQuotePrice, sell.baseQuotePrice, cfg.price_threshold)

\* Lines 165-172: the sell is matched with the buy.
IsRoundTrip(buy, sell, cfg) ==
    /\ sell.blockTimestamp >= buy.blockTimestamp
    /\ sell.blockTimestamp <= buy.blockTimestamp + cfg.time_window
    /\ ~PriceIsNaN(buy) /\ ~PriceIsNaN(sell)
    /\ PriceDiffWithin(buy.baseQuotePrice, sell.baseQuotePrice, cfg.price_threshold)

\* Lines 192-196 with a strict comparison on the volume.
IsSuspiciousMutStrict(round_trips, same_block_trades, total_volume, cfg) ==
    \/ round_trips >= cfg.min_round_trips /\ total_volume > cfg.min_volume
    \/ same_block_trades >= cfg.min_same_block /\ total_volume > cfg.min_volume

\* Lines 192-196
IsSuspicious(round_trips, same_block_trades, total_volume, cfg) ==
    \/ round_trips >= cfg.min_round_trips /\ total_volume >= cfg.min_volume
    \/ same_block_trades >= cfg.min_same_block /\ total_volume >= cfg.min_volume

\* Lines 186-190 with three same-block trades required.
IsLikelyMevMutThree(same_block_trades, total_volume, num_trades) ==
    /\ same_block_trades >= 3
    /\ total_volume < 100 * num_trades
    /\ total_volume < 500

\* Lines 186-190: avg_trade_size < 100 is total_volume / num_trades < 100.
IsLikelyMev(same_block_trades, total_volume, num_trades) ==
    /\ same_block_trades >= 2
    /\ total_volume < 100 * num_trades
    /\ total_volume < 500

\* WashTradingDetector._analyze_wallet_pattern on the rows of one wallet.
\* avg_trade_size, a mean, is kept as <<sum, count>>; 'patterns' and
\* 'avg_round_trip_time' only describe the round trips counted here.
AnalyzeWalletPattern(wallet_txs, cfg) ==
    LET rows == DOMAIN wallet_txs
        round_trips ==
            Cardinality({p \in rows \X rows :
                /\ wallet_txs[p[1]].transactionType = "buy"
                /\ wallet_txs[p[2]].transactionType = "sell"
                /\ IsRoundTrip(wallet_txs[p[1]], wallet_txs[p[2]], cfg)})
        same_block_trades ==
            Cardinality({i \in rows : \E j \in rows \ {i} :
                wallet_txs[j].blockNumber = wallet_txs[i].blockNumber})
        total_volume == SumSeq([i \in rows |-> wallet_txs[i].totalValueUsd])
    IN  [is_suspicious |-> IsSuspicious(round_trips, same_block_trades, total_volume, cfg),
         is_likely_mev |-> IsLikelyMev(same_block_trades, total_volume,
                                       Len(wallet_txs)),
         round_trips |-> round_trips,
         same_block_trades |-> same_block_trades,
         total_volume |-> total_volume,
         avg_trade_size |-> <<total_volume, Len(wallet_txs)>>,
         num_trades |-> Len(wallet_txs)]

\* sum(w['total_volume'] for w in suspicious_wallets.values())
RECURSIVE SumTotalVolume(_)
SumTotalVolume(wallets) ==
    IF DOMAIN wallets = {} THEN 0
    ELSE LET w == CHOOSE w \in DOMAIN wallets : TRUE
         IN  wallets[w].total_volume
             + SumTotalVolume([v \in DOMAIN wallets \ {w} |-> wallets[v]])

\* df.groupby('walletAddress') on the rows sorted by time: the rows of w.
WalletGroup(transactions, w) ==
    LET rows == SelectSeq(transactions, LAMBDA r : r.walletAddress = w)
        n == Len(rows)
        rank == <<>> \o [i \in 1..n |->
                    1 + Cardinality({j \in 1..n :
                        \/ rows[j].blockTimestamp < rows[i].blockTimestamp
                        \/ /\ rows[j].blockTimestamp = rows[i].blockTimestamp
                           /\ j < i})]
    IN  <<>> \o [k \in 1..n |-> rows[CHOOSE i \in 1..n : rank[i] = k]]

\* WashTradingDetector.detect
WashDetect(transactions, cfg) ==
    IF transactions = <<>>
    THEN [detected_count |-> 0,
          suspicious_wallets |-> <<>>,
          false_positive_note |-> ""]
    ELSE LET wallets == {transactions[i].walletAddress : i \in DOMAIN transactions}
             patterns == [w \in wallets |->
                             AnalyzeWalletPattern(WalletGroup(transactions, w), cfg)]
             suspicious == {w \in wallets : /\ patterns[w].is_suspicious
                                            /\ ~patterns[w].is_likely_mev}
             potential_mev_bots == {w \in wallets : /\ patterns[w].is_suspicious
                                                    /\ patterns[w].is_likely_mev}
         IN  [detected_count |-> Cardinality(suspicious),
              suspicious_wallets |-> [w \in suspicious |-> patterns[w]],
              total_suspicious_volume |->
                  SumTotalVolume([w \in suspicious |-> patterns[w]]),
              mev_bots_filtered |-> Cardinality(potential_mev_bots),
              note |-> <<"Filtered out", Cardinality(potential_mev_bots),
                         "likely MEV/arbitrage bots">>]

----------------------------------------------------------------------------
(* One WashTradingDetector.detect call on a batch *)

MaxEvents == 5       \* events of the wallet under study in a batch

\* The events a wallet can make: <<type, block, minute, price>>.  Block 2 is
\* a full window after block 1, block 3 one minute more; 102 is 2% off 100.
WashKinds ==
    << <<"buy", 1, 0, 100>>, <<"buy", 2, 60, 100>>,
       <<"sell", 1, 0, 100>>, <<"sell", 1, 0, 102>>, <<"sell", 1, 0, 103>>,
       <<"sell", 2, 60, 100>>, <<"sell", 3, 61, 100>> >>

WashEvent(kind, wallet, usd) ==
    RawSwap(<<kind[2], 0>>, 0, kind[1], kind[2], kind[3], wallet, "P",
            1, 1, usd, kind[4], "")

\* The batches of n events of one wallet, up to the order of the events.
RECURSIVE KindChoices(_, _)
KindChoices(n, lowest) ==
    IF n = 0 THEN {<<>>}
    ELSE UNION {{<<k>> \o rest : rest \in KindChoices(n - 1, k)} :
                    k \in lowest..Len(WashKinds)}

\* The low, medium and high presets of CryptoAnomalyDetectionSystem and a
\* detector constructed with thresholds of its own.
WashConfigs ==
    {WashTradingDetectorInit(5, 10, 5000), WashTradingDetectorInit(3, 5, 1000),
     WashTradingDetectorInit(2, 3, 500), WashTradingDetectorInit(1, 2, 100)}

\* Up to max_events events of wallet 0xa, all of one dollar value, with or
\* without two same-block trades of a wallet whose address differs from it
\* in case only.
WashBatches(max_events) ==
    {[i \in DOMAIN ks |-> WashEvent(WashKinds[ks[i]], "0xa", usd)] \o other :
        ks \in UNION {KindChoices(n, 1) : n \in 0..max_events},
        usd \in {99, 249, 250, 1000},
        other \in {<<>>, <<WashEvent(WashKinds[1], "0xA", 1000),
                           WashEvent(WashKinds[3], "0xA", 1000)>>}}

InitWash ==
    /\ config \in WashConfigs
    /\ data \in WashBatches(MaxEvents)
    /\ pc = 0
    /\ result = Idle
    /\ attacks_found = Idle
    /\ heap = Idle
    /\ locals = Idle
    /\ now = Idle

DetectWash ==
    /\ pc = 0
    /\ pc' = 1
    /\ result' = WashDetect(data, config)
    /\ UNCHANGED <<data, attacks_found, heap, locals, now, config>>

SpecWash == InitWash /\ [][DetectWash]_vars

\* The wallets of the batch and what the detector measures of each.
WashWallets == {data[i].walletAddress : i \in DOMAIN data}

WalletMetrics(w) == AnalyzeWalletPattern(WalletGroup(data, w), config)

\* C2: a wallet is in suspicious_wallets if and only if its round trips
\* reach min_round_trips or its same-block trades reach min_same_block,
\* its total volume reaches min_volume (all three inclusive), and it is not
\* tagged as a likely MEV bot.
C2_FlaggedIffThresholds ==
    (pc = 1 /\ data # <<>>) =>
        \A w \in WashWallets :
            LET mt == WalletMetrics(w)
            IN  w \in DOMAIN result.suspicious_wallets <=>
                    /\ \/ mt.round_trips >= config.min_round_trips
                       \/ mt.same_block_trades >= config.min_same_block
                    /\ mt.total_volume >= config.min_volume
                    /\ ~(/\ mt.same_block_trades >= 2
                         /\ mt.total_volume < 100 * mt.num_trades
                         /\ mt.total_volume < 500)

\* A wallet exactly at the round-trip and volume thresholds is flagged.
C2_Witness ==
    /\ pc = 1
    /\ "0xa" \in WashWallets
    /\ WalletMetrics("0xa").round_trips = config.min_round_trips
    /\ WalletMetrics("0xa").same_block_trades < config.min_same_block
    /\ WalletMetrics("0xa").total_volume = config.min_volume
    /\ "0xa" \in DOMAIN result.suspicious_wallets

\* The wallets of the batch with at least two same-block trades, an average
\* trade size below $100 and a total volume below $500.
MevWallets ==
    {w \in WashWallets : /\ WalletMetrics(w).same_block_trades >= 2
                         /\ WalletMetrics(w).total_volume
                                < 100 * WalletMetrics(w).num_trades
                         /\ WalletMetrics(w).total_volume < 500}

C14_WalletCaseInsensitive ==
    pc = 1 =>
        result = WashDetect([i \in DOMAIN data |->
                                [data[i] EXCEPT !.walletAddress = Lower(@)]], config)

\* C18: round_trips of a wallet is the number of (buy, sell) pairs of the
\* wallet with the sell at or after the buy and at most the window later
\* (both inclusive) and |buy price - sell price| / buy price at most the
\* price deviation threshold (inclusive); a sell counts once per buy.
C18_RoundTripsArePairs ==
    (pc = 1 /\ data # <<>>) =>
        \A w \in DOMAIN result.suspicious_wallets :
            result.suspicious_wallets[w].round_trips =
                Cardinality({p \in (DOMAIN data) \X (DOMAIN data) :
                    /\ data[p[1]].walletAddress = w
                    /\ data[p[2]].walletAddress = w
                    /\ data[p[1]].transactionType = "buy"
                    /\ data[p[2]].transactionType = "sell"
                    /\ data[p[2]].blockTimestamp >= data[p[1]].blockTimestamp
                    /\ data[p[2]].blockTimestamp
                            <= data[p[1]].blockTimestamp + config.time_window
                    /\ Abs(data[p[1]].baseQuotePrice - data[p[2]].baseQuotePrice) * 100
                            <= config.price_threshold * data[p[1]].baseQuotePrice})

\* Two buys and, a full window later, one sell: the sell makes a round
\* trip with each buy and the wallet is flagged for them.
C18_Witness ==
    /\ pc = 1
    /\ Len(data) = 3
    /\ "0xa" \in DOMAIN result.suspicious_wallets
    /\ result.suspicious_wallets["0xa"].round_trips = 2
    /\ result.suspicious_wallets["0xa"].same_block_trades = 2
    /\ \E i \in 1..3 : /\ data[i].transactionType = "sell"
                        /\ data[i].blockTimestamp = 60

\* C7: on an empty batch the detector returns the fields of a non-empty
\* result with zero values: detected_count 0, no suspicious wallets, total
\* suspicious volume 0 and filtered-MEV count 0.
C7_EmptyBatchZeroResult ==
    (pc = 1 /\ data = <<>>) =>
        /\ DOMAIN result = {"detected_count", "suspicious_wallets",
                            "total_suspicious_volume", "mev_bots_filtered", "note"}
        /\ result.detected_count = 0
        /\ DOMAIN result.suspicious_wallets = {}
        /\ result.total_suspicious_volume = 0
        /\ result.mev_bots_filtered = 0

----------------------------------------------------------------------------
(* PoolDominationDetector.  A raw pool event is a RawSwap record whose      *)
(* boughtAmount and soldAmount stand for baseTokenAmount and                *)
(* quoteTokenAmount; a percentage is a pair <<numerator, denominator>>.     *)

\* The fields _parse_pool_data passes through float().
PoolFloatKeys ==
    {"baseTokenAmount", "quoteTokenAmount", "baseTokenPriceUsd",
     "quoteTokenPriceUsd", "baseQuotePrice", "totalValueUsd"}

\* The exception _parse_pool_data raises on a raw event, or "none": every
\* key is read with swap_data[...].
PoolParseError(raw) ==
    IF raw.absent \cap (PoolFloatKeys \cup
            {"transactionHash", "transactionIndex", "transactionType", "blockNumber",
             "blockTimestamp", "walletAddress", "subCategory"}) # {}
    THEN "KeyError"
    ELSE IF "walletAddress" \in raw.null THEN "AttributeError"
    ELSE IF raw.null \cap PoolFloatKeys # {} THEN "TypeError"
    ELSE IF raw.text \cap PoolFloatKeys # {} THEN "ValueError"
    ELSE "none"

\* _parse_pool_data: the first record that raises ends the call.
ParsePoolData(batch) ==
    IF \E i \in DOMAIN batch : PoolParseError(batch[i]) # "none"
    THEN [ok |-> FALSE,
          error |-> PoolParseError(batch[CHOOSE i \in DOMAIN batch :
                        /\ PoolParseError(batch[i]) # "none"
                        /\ \A j \in 1..(i - 1) : PoolParseError(batch[j]) = "none"]),
          swaps |-> <<>>]
    ELSE [ok |-> TRUE, error |-> "none",
          swaps |-> [i \in DOMAIN batch |->
                       [transaction_hash |-> batch[i].transactionHash,
                        transaction_index |-> batch[i].transactionIndex,
                        transaction_type |-> batch[i].transactionType,
                        block_number |-> batch[i].blockNumber,
                        block_timestamp |-> batch[i].blockTimestamp,
                        wallet_address |-> Lower(batch[i].walletAddress),
                        sub_category |-> batch[i].subCategory,
                        base_token_amount |-> batch[i].boughtAmount,
                        quote_token_amount |-> Abs(batch[i].soldAmount),
                        base_quote_price |-> batch[i].baseQuotePrice,
                        total_value_usd |-> batch[i].totalValueUsd]]]

\* Line 546 with inclusive comparisons.
IsDominantMutInclusive(tx_percentage, volume_percentage) ==
    \/ tx_percentage[1] >= 20 * tx_percentage[2]
    \/ volume_percentage[1] >= 30 * volume_percentage[2]

\* Line 546: if tx_percentage > 20 or volume_percentage > 30
IsDominant(tx_percentage, volume_percentage) ==
    PctAbove(tx_percentage, 20) \/ PctAbove(volume_percentage, 30)

\* Lines 527-581: the PoolDomination of wallet w, or <<>> if w is not
\* dominant.  sort_key is domination_percentage times len(swaps) times the
\* total volume, a whole number in the order of the percentages.
WalletDomination(w, swaps) ==
    LET mine == SelectSeq(swaps, LAMBDA s : s.wallet_address = w)
        txs == Len(mine)
        buys == Len(SelectSeq(mine, LAMBDA s : s.transaction_type = "buy"))
        volume == SumSeq([i \in DOMAIN mine |-> mine[i].total_value_usd])
        total_volume == SumSeq([i \in DOMAIN swaps |-> swaps[i].total_value_usd])
        tx_percentage == <<txs * 100, Len(swaps)>>
        volume_percentage == IF total_volume > 0 THEN <<volume * 100, total_volume>>
                             ELSE <<0, 1>>
        domination_score ==
            IF tx_percentage[1] * volume_percentage[2]
                  >= volume_percentage[1] * tx_percentage[2]
            THEN tx_percentage ELSE volume_percentage
    IN  IF ~IsDominant(tx_percentage, volume_percentage) THEN <<>>
        ELSE <<[dominant_wallet |-> w,
                domination_percentage |-> domination_score,
                sort_key |-> Max(txs * 100 * volume_percentage[2],
                                 volume_percentage[1] * Len(swaps)),
                total_transactions |-> Len(swaps),
                wallet_transactions |-> txs,
                total_volume_usd |-> total_volume,
                wallet_volume_usd |-> volume,
                transaction_pattern |->
                    IF buys * 10 > 8 * txs THEN "Accumulation (Heavy Buying)"
                    ELSE IF buys * 10 < 2 * txs THEN "Distribution (Heavy Selling)"
                    ELSE "Mixed Trading",
                risk_level |-> IF PctAbove(domination_score, 50) THEN "CRITICAL"
                               ELSE IF PctAbove(domination_score, 35) THEN "HIGH"
                               ELSE "MEDIUM",
                manipulation_likelihood |->
                               IF PctAbove(domination_score, 50) THEN 80
                               ELSE IF PctAbove(domination_score, 35) THEN 60
                               ELSE 40]>>

\* PoolDominationDetector.analyze on the parsed swaps.
PoolDominationAnalyze(swaps) ==
    LET wallets == KeysInOrder(swaps, "wallet_address")
    IN  SortBy(Flatten([k \in DOMAIN wallets |-> WalletDomination(wallets[k], swaps)]),
               "sort_key", TRUE)

----------------------------------------------------------------------------
(* One PoolDominationDetector.analyze call on a batch *)

MaxSmallPool == 6    \* events in a small batch; a full batch has 100

\* A batch of n events: the first k by one wallet (written 0xa or 0xA),
\* each worth usd[1], the others spread evenly over five other wallets, each
\* worth usd[2].
PoolBatch(n, k, type, usd) ==
    [i \in 1..n |->
        IF i <= k
        THEN RawSwap(<<i, 0>>, 0, type, i, i, IF i % 2 = 1 THEN "0xa" ELSE "0xA",
                     "P", 1, 1, usd[1], 1, "")
        ELSE RawSwap(<<i, 0>>, 0, IF i % 2 = 1 THEN "buy" ELSE "sell", i, i,
                     <<"0xb", "0xc", "0xd", "0xe", "0xf">>[(i % 5) + 1], "P", 1, 1, usd[2], 1, "")]

\* 240 of 800 dollars is a volume share of exactly 30%.
PoolBatches(sizes) ==
    UNION {{PoolBatch(n, k, type, usd) :
                k \in 0..n, type \in {"buy", "sell"},
                usd \in {<<100, 100>>, <<12, 7>>, <<13, 7>>, <<0, 0>>,
                         <<100, 0>>, <<0, 100>>}} :
           n \in sizes}

InitDomination ==
    /\ data \in PoolBatches(0..MaxSmallPool \cup {100})
    /\ pc = 0
    /\ result = Idle
    /\ attacks_found = Idle
    /\ heap = Idle
    /\ locals = Idle
    /\ now = Idle
    /\ config = Idle

AnalyzeDomination ==
    /\ pc = 0
    /\ pc' = 1
    /\ result' = [raised |-> ~ParsePoolData(data).ok,
                  dominations |-> PoolDominationAnalyze(ParsePoolData(data).swaps)]
    /\ UNCHANGED <<data, attacks_found, heap, locals, now, config>>

SpecDomination == InitDomination /\ [][AnalyzeDomination]_vars

\* The events of wallet w in the batch, and the dollars they are worth.
EventsOf(w) == {i \in DOMAIN data : Lower(data[i].walletAddress) = w}

DollarsOf(events) ==
    SumSeq([i \in DOMAIN data |-> IF i \in events THEN data[i].totalValueUsd ELSE 0])

Flagged == {result.dominations[i].dominant_wallet : i \in DOMAIN result.dominations}

\* C3: a wallet is flagged if and only if its share of the batch's
\* transactions is strictly above 20% or its share of the batch's dollar
\* volume is strictly above 30%; 25 of 100 transactions are flagged, exactly
\* 20 of 100 with a volume share of at most 30% are not.
C3_FlaggedIffShareAbove ==
    pc = 1 =>
        /\ \A w \in {Lower(data[i].walletAddress) : i \in DOMAIN data} :
              w \in Flagged <=>
                 \/ Cardinality(EventsOf(w)) * 100 > 20 * Len(data)
                 \/ /\ DollarsOf(DOMAIN data) > 0
                    /\ DollarsOf(EventsOf(w)) * 100 > 30 * DollarsOf(DOMAIN data)
        /\ (Len(data) = 100 /\ Cardinality(EventsOf("0xa")) = 25) => "0xa" \in Flagged
        /\ (/\ Len(data) = 100 /\ Cardinality(EventsOf("0xa")) = 20
            /\ DollarsOf(EventsOf("0xa")) * 100 <= 30 * DollarsOf(DOMAIN data))
              => "0xa" \notin Flagged

\* A wallet with exactly 20 of 100 transactions and exactly 30% of the
\* volume is not flagged, while the batch has a flagged wallet.
C3_Witness ==
    /\ pc = 1
    /\ Len(data) = 100
    /\ Cardinality(EventsOf("0xa")) = 20
    /\ DollarsOf(EventsOf("0xa")) * 100 = 30 * DollarsOf(DOMAIN data)
    /\ DollarsOf(DOMAIN data) > 0
    /\ "0xa" \notin Flagged

----------------------------------------------------------------------------
(* threat_risk_detector: the risk modules and the RiskEngine.  Scores and   *)
(* percentages are in hundredths of a point (2301 is 23.01).                *)

\* A variant of BaseRisk.label whose first band excludes 23.
LabelMutExclusive(score) ==
    IF 0 <= score /\ score < 2300 THEN "Low Risk"
    ELSE IF 2300 <= score /\ score <= 5000 THEN "Medium Risk"
    ELSE IF 5000 < score /\ score <= 10000 THEN "High Risk"
    ELSE "Unknown"

\* BaseRisk.label
Label(score) ==
    IF 0 <= score /\ score <= 2300 THEN "Low Risk"
    ELSE IF 2300 < score /\ score <= 5000 THEN "Medium Risk"
    ELSE IF 5000 < score /\ score <= 10000 THEN "High Risk"
    ELSE "Unknown"

\* round(n / d, 2) of a quotient of hundredths, d > 0 and n >= 0: the nearest
\* hundredth; when n / d is half-way between two, the error of the floating
\* point operations before the rounding decides which of them it is.
Round2(n, d) ==
    IF 2 * (n % d) = d THEN {n \div d, n \div d + 1}
    ELSE IF 2 * (n % d) < d THEN {n \div d}
    ELSE {n \div d + 1}

\* max(0.0, min(100.0, x))
Clamp(x) == Max(0, Min(10000, x))

\* A detail value of the document: <<"missing", 0>>, <<"null", 0>>,
\* <<"bool", TRUE or FALSE>> or <<"number", n>>.  float(x or 0):
OrZero(v) == IF v[1] = "number" THEN v[2] ELSE 0

\* bool(x)
Truthy(v) == (v[1] = "bool" /\ v[2]) \/ (v[1] = "number" /\ v[2] # 0)

\* int(flag)
BoolToInt(b) == IF b THEN 1 ELSE 0

GovernanceRiskScore(is_proxy, access_control, upgradeable_contract) ==
    Round2((5 * BoolToInt(access_control) + 4 * BoolToInt(is_proxy)
            + 3 * BoolToInt(upgradeable_contract)) * 10000, 12)

LiquidityRiskScore(unlocked_liquidity, lockedLiquidityPercent, creator_percent) ==
    Round2(5 * 10000 * BoolToInt(unlocked_liquidity)
           + 3 * Clamp(10000 - lockedLiquidityPercent)
           + 2 * Clamp(creator_percent), 10)

\* A variant of HolderRisk.score without the clamp.
HolderRiskScoreMutNoClamp(percentageHeldByTop10) ==
    {percentageHeldByTop10}

HolderRiskScore(percentageHeldByTop10) ==
    {Clamp(percentageHeldByTop10)}

TokenSecurityRiskScore(buy_tax_percentage, transfer_pausable, is_blacklisted, is_trusted) ==
    Round2(4 * Clamp(buy_tax_percentage)
           + 2 * 10000 * BoolToInt(transfer_pausable)
           + 3 * 10000 * BoolToInt(is_blacklisted)
           + 10000 * BoolToInt(~is_trusted), 10)

\* rank_score is (marketCapRank - 1) / 999 * 100, clamped: the sum is taken
\* over the denominator 999 * 10.  The rank is a whole number, not in
\* hundredths; a rank of 0 reads as 1000 (line 157).
MarketRiskScore(volatility, ath_change, atl_change, marketCapRank) ==
    LET rank == IF marketCapRank = 0 THEN 1000 ELSE marketCapRank
    IN  Round2((4 * Clamp(Abs(volatility)) + 2 * Clamp(Abs(ath_change))
                + 2 * Clamp(Abs(atl_change))) * 999
               + 2 * Max(0, Min(999 * 10000, (rank - 1) * 10000)),
               9990)

FraudRiskScore(hacker, drainer, mixers, tornado) ==
    Round2(10000 * (BoolToInt(hacker) + BoolToInt(drainer) + BoolToInt(mixers) + BoolToInt(tornado)), 4)

\* build_engine_from_webacy: the modules of the engine, each with the
\* values its score() can return.
BuildEngineFromWebacy(response) ==
    [governance |-> GovernanceRiskScore("is_proxy" \in response.issues,
                        Truthy(response.access_control),
                        "upgradeable_contract" \in response.issues),
     liquidity |-> LiquidityRiskScore("unlocked-liquidity" \in response.issues,
                        OrZero(response.lockedLiquidityPercent),
                        OrZero(response.creator_percent)),
     holder |-> HolderRiskScore(OrZero(response.percentageHeldByTop10)),
     token_security |-> TokenSecurityRiskScore(OrZero(response.buy_tax_percentage),
                        "transfer_pausable" \in response.issues,
                        "is_blacklisted" \in response.issues,
                        Truthy(response.is_trusted)),
     market |-> MarketRiskScore(OrZero(response.price_change_percentage_7d),
                        OrZero(response.ath_change_percentage),
                        OrZero(response.atl_change_percentage),
                        IF OrZero(response.market_cap_rank) = 0 THEN 9999
                        ELSE OrZero(response.market_cap_rank)),
     fraud |-> FraudRiskScore("hacker" \in response.issues,
                        "drainer" \in response.issues,
                        "mixers" \in response.issues,
                        "tornado" \in response.issues)]

\* sum(scores) over the modules of an engine.
RECURSIVE SumScores(_)
SumScores(scores) ==
    IF DOMAIN scores = {} THEN 0
    ELSE LET k == CHOOSE k \in DOMAIN scores : TRUE
         IN  scores[k] + SumScores([j \in DOMAIN scores \ {k} |-> scores[j]])

\* RiskEngine.overall_score: the values it can return for these scores.
OverallScore(scores) ==
    IF DOMAIN scores = {} THEN {0}
    ELSE Round2(SumScores(scores), Cardinality(DOMAIN scores))

----------------------------------------------------------------------------
(* BaseRisk.label applied to a score *)

InitLabel ==
    /\ data \in (-200)..10200         \* -2.00 to 102.00
    /\ pc = 0
    /\ result = Idle
    /\ attacks_found = Idle
    /\ heap = Idle
    /\ locals = Idle
    /\ now = Idle
    /\ config = Idle

ApplyLabel ==
    /\ pc = 0
    /\ pc' = 1
    /\ result' = Label(data)
    /\ UNCHANGED <<data, attacks_found, heap, locals, now, config>>

SpecLabel == InitLabel /\ [][ApplyLabel]_vars

\* C4: label maps [0,23] to Low Risk, (23,50] to Medium Risk and (50,100]
\* to High Risk, so every score in [0,100] gets exactly one of the three
\* labels; 23.0 is Low, 23.01 Medium, 50.0 Medium and 50.01 High.
C4_LabelBands ==
    pc = 1 =>
        /\ data \in 0..10000 =>
              /\ result \in {"Low Risk", "Medium Risk", "High Risk"}
              /\ result = "Low Risk" <=> data <= 2300
              /\ result = "Medium Risk" <=> (2300 < data /\ data <= 5000)
              /\ result = "High Risk" <=> 5000 < data
        /\ data = 2300 => result = "Low Risk"
        /\ data = 2301 => result = "Medium Risk"
        /\ data = 5000 => result = "Medium Risk"
        /\ data = 5001 => result = "High Risk"

C4_Witness == pc = 1 /\ data = 2300 /\ result = "Low Risk"

----------------------------------------------------------------------------
(* A RiskEngine built from a risk-flags document and asked for its scores *)

\* Detail values: missing, null, negative, small, in range, and over 100.
DetailValues ==
    {<<"missing", 0>>, <<"null", 0>>, <<"number", -5000>>, <<"number", 0>>,
     <<"number", 1>>, <<"number", 3750>>, <<"number", 9999>>,
     <<"number", 10000>>, <<"number", 15000>>}

\* Documents in which the issue tags, the liquidity and holder values, the
\* token values or the market values take every combination, the rest
\* being that of a document without any finding or of one with every finding
\* at its worst.
RiskDocuments(values) ==
    LET keys == {"is_proxy", "upgradeable_contract", "unlocked-liquidity",
                 "transfer_pausable", "is_blacklisted", "hacker", "drainer",
                 "mixers", "tornado"}
        flags == {<<"missing", 0>>, <<"null", 0>>, <<"bool", TRUE>>, <<"bool", FALSE>>}
        ranks == {<<"missing", 0>>, <<"null", 0>>, <<"number", -5>>, <<"number", 0>>,
                  <<"number", 1>>, <<"number", 500>>, <<"number", 1000>>,
                  <<"number", 5000>>}
        quiet == [issues |-> {}, access_control |-> <<"missing", 0>>,
                  is_trusted |-> <<"bool", TRUE>>,
                  lockedLiquidityPercent |-> <<"number", 10000>>,
                  creator_percent |-> <<"missing", 0>>,
                  percentageHeldByTop10 |-> <<"missing", 0>>,
                  buy_tax_percentage |-> <<"missing", 0>>,
                  price_change_percentage_7d |-> <<"missing", 0>>,
                  ath_change_percentage |-> <<"missing", 0>>,
                  atl_change_percentage |-> <<"missing", 0>>,
                  market_cap_rank |-> <<"number", 1>>]
        worst == [issues |-> keys, access_control |-> <<"bool", TRUE>>,
                  is_trusted |-> <<"bool", FALSE>>,
                  lockedLiquidityPercent |-> <<"number", 0>>,
                  creator_percent |-> <<"number", 10000>>,
                  percentageHeldByTop10 |-> <<"number", 10000>>,
                  buy_tax_percentage |-> <<"number", 10000>>,
                  price_change_percentage_7d |-> <<"number", 10000>>,
                  ath_change_percentage |-> <<"number", -10000>>,
                  atl_change_percentage |-> <<"number", 10000>>,
                  market_cap_rank |-> <<"missing", 0>>]
    IN  UNION {
            {[base EXCEPT !.issues = tags] : tags \in SUBSET keys}
            \cup {[base EXCEPT !.lockedLiquidityPercent = l, !.creator_percent = c,
                               !.percentageHeldByTop10 = h, !.access_control = a] :
                     l \in values, c \in values, h \in values, a \in flags}
            \cup {[base EXCEPT !.buy_tax_percentage = x, !.is_trusted = a] :
                     x \in values, a \in flags}
            \cup {[base EXCEPT !.price_change_percentage_7d = v,
                               !.ath_change_percentage = h,
                               !.atl_change_percentage = l, !.market_cap_rank = r] :
                     v \in values, h \in values, l \in values, r \in ranks} :
            base \in {quiet, worst}}

\* The engine is built from a document, or constructed without modules.
InitRisk ==
    /\ config \in {"build_engine_from_webacy", "RiskEngine({})"}
    /\ data \in (IF config = "RiskEngine({})" THEN {<<>>}
                 ELSE RiskDocuments(DetailValues))
    /\ pc = 0
    /\ result = Idle
    /\ attacks_found = Idle
    /\ heap = Idle
    /\ locals = Idle
    /\ now = Idle

\* The engine is built, every module is scored, overall_risk is taken.
AssessRisk ==
    /\ pc = 0
    /\ pc' = 1
    /\ \E scores \in (IF config = "RiskEngine({})" THEN {<<>>}
                      ELSE LET modules == BuildEngineFromWebacy(data)
                           IN  {[governance |-> g, liquidity |-> l, holder |-> h,
                                 token_security |-> t, market |-> m, fraud |-> f] :
                                   g \in modules.governance, l \in modules.liquidity,
                                   h \in modules.holder, t \in modules.token_security,
                                   m \in modules.market, f \in modules.fraud}) :
          \E overall \in OverallScore(scores) :
              result' = [scores |-> scores,
                         overall_score |-> overall,
                         overall_risk |-> <<overall, Label(overall)>>]
    /\ UNCHANGED <<data, attacks_found, heap, locals, now, config>>

SpecRisk == InitRisk /\ [][AssessRisk]_vars

\* C5 as claimed: every module score lies in [0,100] and the overall score
\* is the arithmetic mean of the module scores (0.0 without modules).
C5_OverallIsMean ==
    pc = 1 =>
        /\ \A k \in DOMAIN result.scores : result.scores[k] \in 0..10000
        /\ result.overall_score * Cardinality(DOMAIN result.scores)
              = SumScores(result.scores)

\* C5 as amended: every module score lies in [0,100] and the overall score
\* is the arithmetic mean of the module scores rounded to two decimals, so
\* within half a hundredth of the mean and in [0,100] (0.0 without modules).
C5_OverallIsRoundedMean ==
    pc = 1 =>
        LET n == Cardinality(DOMAIN result.scores)
        IN  /\ \A k \in DOMAIN result.scores : result.scores[k] \in 0..10000
            /\ 2 * Abs(n * result.overall_score - SumScores(result.scores)) <= n
            /\ result.overall_score \in 0..10000

\* A document with negative and over-100 values whose mean is no multiple
\* of a hundredth.
C5_Witness ==
    /\ pc = 1
    /\ config = "build_engine_from_webacy"
    /\ data.lockedLiquidityPercent = <<"number", -5000>>
    /\ data.creator_percent = <<"number", 15000>>
    /\ data.percentageHeldByTop10 = <<"null", 0>>
    /\ SumScores(result.scores) % 6 # 0
    /\ result.overall_score \in 1..9999

----------------------------------------------------------------------------
(* PumpAndDumpDetector._calculate_confidence.  Magnitudes and thresholds    *)
(* are in percent (50 is 0.50), the confidence in hundredths; the floating  *)
(* point sum of the same addends is ordered like the exact sum.             *)

\* PumpAndDumpDetector.__init__ with its default window of 4 hours.
PumpAndDumpDetectorInit(pump_threshold, dump_threshold, min_wallets) ==
    [pump_threshold |-> pump_threshold,
     dump_threshold |-> dump_threshold,
     min_wallets |-> min_wallets,
     time_window |-> 240]

\* A variant of _calculate_confidence whose dumper tiers are exchanged.
CalculateConfidenceMutTiers(cfg, num_dumpers, pump_size, dump_size, volume) ==
    Min((IF num_dumpers >= 20 THEN 15
         ELSE IF num_dumpers >= cfg.min_wallets THEN 25 ELSE 0)
      + (IF pump_size >= 100 THEN 25
         ELSE IF pump_size >= cfg.pump_threshold THEN 15 ELSE 0)
      + (IF dump_size >= 50 THEN 25
         ELSE IF dump_size >= cfg.dump_threshold THEN 15 ELSE 0)
      + (IF volume >= 100000 THEN 25
         ELSE IF volume >= 50000 THEN 15 ELSE 0),
        100)

\* PumpAndDumpDetector._calculate_confidence
CalculateConfidence(cfg, num_dumpers, pump_size, dump_size, volume) ==
    Min((IF num_dumpers >= 20 THEN 25
         ELSE IF num_dumpers >= cfg.min_wallets THEN 15 ELSE 0)
      + (IF pump_size >= 100 THEN 25
         ELSE IF pump_size >= cfg.pump_threshold THEN 15 ELSE 0)
      + (IF dump_size >= 50 THEN 25
         ELSE IF dump_size >= cfg.dump_threshold THEN 15 ELSE 0)
      + (IF volume >= 100000 THEN 25
         ELSE IF volume >= 50000 THEN 15 ELSE 0),
        100)

\* The values an argument takes, around every threshold: the dumper
\* count, the pump and the dump in percent, the volume in dollars.
ConfidenceArguments ==
    [num_dumpers |-> {4, 5, 9, 10, 14, 15, 19, 20, 25},
     pump_size |-> {24, 25, 49, 50, 70, 99, 100, 120},
     dump_size |-> {14, 15, 29, 30, 40, 49, 50, 60},
     volume |-> {49999, 50000, 99999, 100000}]

\* The low, medium and high presets, a detector whose thresholds lie above
\* the fixed tiers, and one whose thresholds are all zero.
InitConfidence ==
    /\ config \in {PumpAndDumpDetectorInit(70, 40, 15),
                   PumpAndDumpDetectorInit(50, 30, 10),
                   PumpAndDumpDetectorInit(25, 15, 5),
                   PumpAndDumpDetectorInit(120, 60, 25),
                   PumpAndDumpDetectorInit(0, 0, 0)}
    /\ data \in [num_dumpers : ConfidenceArguments.num_dumpers,
                 pump_size : ConfidenceArguments.pump_size,
                 dump_size : ConfidenceArguments.dump_size,
                 volume : ConfidenceArguments.volume]
    /\ pc = 0
    /\ result = Idle
    /\ locals = Idle
    /\ attacks_found = Idle
    /\ heap = Idle
    /\ now = Idle

\* The first call.
Calculate ==
    /\ pc = 0
    /\ pc' = 1
    /\ result' = CalculateConfidence(config, data.num_dumpers, data.pump_size,
                                     data.dump_size, data.volume)
    /\ UNCHANGED <<data, attacks_found, heap, locals, now, config>>

\* A further call with one argument larger and the other three as before;
\* locals keeps the arguments and the value of the call before.
CalculateWithLarger(argument) ==
    /\ pc \in {1, 2}
    /\ pc' = 2
    /\ \E larger \in ConfidenceArguments[argument] :
          /\ larger > data[argument]
          /\ data' = [data EXCEPT ![argument] = larger]
    /\ locals' = [arguments |-> data, confidence |-> result]
    /\ result' = CalculateConfidence(config, data'.num_dumpers, data'.pump_size,
                                     data'.dump_size, data'.volume)
    /\ UNCHANGED <<attacks_found, heap, now, config>>

NextConfidence ==
    Calculate \/ \E argument \in DOMAIN ConfidenceArguments : CalculateWithLarger(argument)

SpecConfidence == InitConfidence /\ [][NextConfidence]_vars

\* C6: the confidence is always in [0,1], and for any thresholds a call
\* with one argument larger and the other three unchanged returns at least
\* what the call before returned.
C6_ConfidenceMonotone ==
    /\ pc >= 1 => result \in 0..100
    /\ pc = 2 => result >= locals.confidence

\* A larger dumper count alone raised the confidence of a detector whose
\* min_wallets lies above the fixed tier of 20.
C6_Witness ==
    /\ pc = 2
    /\ config.min_wallets > 20
    /\ data.num_dumpers > locals.arguments.num_dumpers
    /\ result > locals.confidence

----------------------------------------------------------------------------
(* A batch with a malformed numeric field, given to the sandwich analyzer   *)
(* or to the pool domination detector *)

\* A sandwich in block 1, with or without one in block 2, in which one
\* numeric field of one event is absent, null or a text that is no number,
\* or one identity field of one event is absent.
MalformedBatches ==
    LET base == {hi \o LowSandwich : hi \in SecondBlockBatches}
        keys == {"bought.amount", "sold.amount", "baseTokenAmount",
                 "quoteTokenAmount", "baseQuotePrice", "totalValueUsd"}
        identity == {"transactionHash", "walletAddress", "blockNumber"}
    IN  UNION {{[b EXCEPT ![i].absent = {k}] : i \in DOMAIN b, k \in keys \cup identity}
               \cup {[b EXCEPT ![i].null = {k}] : i \in DOMAIN b, k \in keys}
               \cup {[b EXCEPT ![i].text = {k}] : i \in DOMAIN b, k \in keys} :
               b \in base}

InitParse ==
    /\ data \in MalformedBatches
    /\ pc = 0
    /\ result = [raised |-> FALSE, error |-> "none", ref |-> Unset]
    /\ attacks_found = Unset
    /\ heap = <<>>
    /\ locals = Idle
    /\ now = Idle
    /\ config = Idle

SpecParse == InitParse /\ [][AnalyzeSandwich \/ AnalyzeDomination]_vars

\* The batch in which every malformed numeric field holds 0.
Zeroed(batch) ==
    [i \in DOMAIN batch |->
        LET bad == batch[i].absent \cup batch[i].null \cup batch[i].text
        IN  [batch[i] EXCEPT
                !.absent = {}, !.null = {}, !.text = {},
                !.boughtAmount = IF bad \cap {"bought.amount", "baseTokenAmount"} # {}
                                 THEN 0 ELSE @,
                !.soldAmount = IF bad \cap {"sold.amount", "quoteTokenAmount"} # {}
                               THEN 0 ELSE @,
                !.baseQuotePrice = IF "baseQuotePrice" \in bad THEN 0 ELSE @,
                !.totalValueUsd = IF "totalValueUsd" \in bad THEN 0 ELSE @]]

\* C10: a raw event whose numeric field is missing or no number is
\* normalized with that field equal to 0.0 and nothing raises: the analysis
\* returns what it returns for the batch with 0 in that field.
C10_MalformedNumberIsZero ==
    pc = 1 =>
        /\ ~result.raised
        /\ IF "ref" \in DOMAIN result
           THEN Deref(result.ref) = SandwichFindings(ParseAll(Zeroed(data)).swaps)
           ELSE result.dominations
                    = PoolDominationAnalyze(ParsePoolData(Zeroed(data)).swaps)

\* The batch without the records that lack an identity field.
Dropped(batch) ==
    LET HasIdentity(raw) ==
            raw.absent \cap {"transactionHash", "walletAddress", "blockNumber"} = {}
    IN  SelectSeq(batch, HasIdentity)

\* C11: when a record of the batch lacks its transaction hash, wallet
\* address or block number, the analysis does not fail: it returns what it
\* returns for the batch without that record.
C11_MissingIdentityDropsRecord ==
    (pc = 1 /\ Dropped(data) # data) =>
        /\ ~result.raised
        /\ IF "ref" \in DOMAIN result
           THEN Deref(result.ref) = SandwichFindings(ParseAll(Dropped(data)).swaps)
           ELSE result.dominations
                    = PoolDominationAnalyze(ParsePoolData(Dropped(data)).swaps)

----------------------------------------------------------------------------
(* ConcentratedLiquidityAttackDetector._detect_price_manipulation and       *)
(* SnipingBotDetector.  A ratio is a pair <<numerator, denominator>>.       *)

\* _detect_price_manipulation on the parsed pool swaps: the price of the
\* next swap divides at line 338, so a next price of 0 raises
\* ZeroDivisionError.  price_impact is in percent.
DetectPriceManipulation(swaps) ==
    LET pairs == 1..(Len(swaps) - 1)
        change(i) == Abs(swaps[i].base_quote_price - swaps[i + 1].base_quote_price)
        reference(i) == Abs(swaps[i + 1].base_quote_price)
        hit(i) == /\ swaps[i].total_value_usd > 5000
                  /\ change(i) * 100 > 5 * reference(i)
        attack(i) ==
            [attacker_address |-> swaps[i].wallet_address,
             attack_type |-> "Price Manipulation",
             block_number |-> swaps[i].block_number,
             timestamp |-> swaps[i].block_timestamp,
             transactions_involved |-> <<swaps[i]>>,
             price_impact |-> <<change(i) * 100, reference(i)>>,
             profit_estimate |-> 0,
             attack_confidence |->
                IF change(i) * 1000000 + swaps[i].total_value_usd * reference(i)
                        >= 100000 * reference(i)
                THEN <<100, 1>>
                ELSE <<change(i) * 1000000 + swaps[i].total_value_usd * reference(i),
                       1000 * reference(i)>>]
    IN  IF \E i \in pairs : swaps[i + 1].base_quote_price = 0
        THEN [raised |-> TRUE, error |-> "ZeroDivisionError", attacks |-> <<>>]
        ELSE [raised |-> FALSE, error |-> "none",
              attacks |-> Flatten([i \in pairs |->
                              IF hit(i) THEN <<attack(i)>> ELSE <<>>])]

\* SnipingBotDetector._calculate_bot_confidence
CalculateBotConfidence(metrics) ==
    Min(100,
        (IF metrics.new_position_ratio[1] * 10 > 7 * metrics.new_position_ratio[2]
         THEN 30
         ELSE IF metrics.new_position_ratio[1] * 10 > 5 * metrics.new_position_ratio[2]
         THEN 20 ELSE 0)
        + (IF metrics.unique_tokens > 10 THEN 25
           ELSE IF metrics.unique_tokens > 5 THEN 15 ELSE 0)
        + (IF metrics.total_snipes > 20 THEN 20
           ELSE IF metrics.total_snipes > 10 THEN 10 ELSE 0)
        + (IF metrics.avg_entry_speed[1] < 50 * metrics.avg_entry_speed[2] THEN 25
           ELSE IF metrics.avg_entry_speed[1] < 100 * metrics.avg_entry_speed[2]
           THEN 15 ELSE 0))

\* Lines 369-379: the snipe counts as successful.
IsSuccessfulSnipe(snipe, swaps) ==
    LET sells == SelectSeq(swaps, LAMBDA s : /\ s.transaction_type = "sell"
                                             /\ s.base_token = snipe.base_token)
    IN  IF sells # <<>>
        THEN FirstExtreme(sells, "block_number", TRUE).base_quote_price
                > snipe.base_quote_price
        ELSE TRUE

\* SnipingBotDetector.analyze_wallet on the parsed swaps: None below five
\* buys, else the bot profile.
SnipingAnalyzeWallet(swaps) ==
    LET buys == SelectSeq(swaps, LAMBDA s : s.transaction_type = "buy")
        new_positions == SelectSeq(buys, LAMBDA s : s.sub_category = "newPosition")
        checked == Min(Len(new_positions), 10)
        successful_snipes ==
            Cardinality({k \in 1..checked : IsSuccessfulSnipe(new_positions[k], swaps)})
        metrics ==
            [total_snipes |-> Len(new_positions),
             unique_tokens |->
                Cardinality({new_positions[k].base_token : k \in DOMAIN new_positions}),
             new_position_ratio |-> <<Len(new_positions), Len(buys)>>,
             avg_entry_speed |->
                IF new_positions # <<>>
                THEN <<SumSeq([k \in DOMAIN new_positions |->
                                 new_positions[k].transaction_index]),
                       Len(new_positions)>>
                ELSE <<0, 1>>]
    IN  IF Len(buys) < 5
        THEN [bot |-> FALSE]
        ELSE [bot |-> TRUE,
              total_snipes |-> Len(new_positions),
              successful_snipes |-> successful_snipes,
              success_rate |-> IF new_positions # <<>>
                               THEN <<successful_snipes * 100, checked>>
                               ELSE <<0, 1>>,
              total_volume_usd |-> SumSeq([k \in DOMAIN buys |-> buys[k].total_value_usd]),
              avg_entry_speed_blocks |-> metrics.avg_entry_speed,
              tokens_sniped |-> [k \in 1..Min(Len(new_positions), 20) |->
                                    new_positions[k].bought_symbol],
              recent_snipes |-> SubSeq(new_positions, 1, Min(Len(new_positions), 5)),
              bot_confidence_score |-> CalculateBotConfidence(metrics)]

----------------------------------------------------------------------------
(* One call of a detector whose arithmetic divides by a value of the data *)

MaxSwaps == 3        \* events in a batch of a pool

\* The detectors that divide by a value taken from the batch.
Dividers ==
    {"ConcentratedLiquidityAttackDetector", "InsiderTradingDetector",
     "PoolDominationDetector", "SnipingBotDetector"}

\* Batches of buys, one per block, for the detector: prices that are 0 for
\* the price manipulation scan and the insider analysis, dollar values that
\* are 0 for the pool domination, and five buys of which any number, also
\* none, is a new position for the sniping analysis.
DividerBatches(detector, max_swaps) ==
    LET lengths == CASE detector = "ConcentratedLiquidityAttackDetector" -> 2..max_swaps
                     [] detector = "InsiderTradingDetector" -> 1..2
                     [] detector = "PoolDominationDetector" -> 1..max_swaps
                     [] OTHER -> {5}
        choices == CASE detector = "ConcentratedLiquidityAttackDetector" ->
                            {"0xa"} \X {1000, 6000} \X {0, 100, 110} \X {""}
                     [] detector = "InsiderTradingDetector" ->
                            {"0xa"} \X {5000} \X {0, 100, 160} \X {"newPosition"}
                     [] detector = "PoolDominationDetector" ->
                            {"0xa", "0xb"} \X {0, 100} \X {100} \X {""}
                     [] OTHER ->
                            {"0xa"} \X {100} \X {100} \X {"newPosition", "accumulation"}
    IN  UNION {{[i \in 1..n |->
                    RawSwap(<<i, 0>>, 0, "buy", i, i, f[i][1], "P", 1, 1,
                            f[i][2], f[i][3], f[i][4])] :
                f \in [1..n -> choices]} : n \in lengths}

InitDivide ==
    /\ config \in Dividers
    /\ data \in DividerBatches(config, MaxSwaps)
    /\ now = 30
    /\ pc = 0
    /\ result = Idle
    /\ attacks_found = Idle
    /\ heap = Idle
    /\ locals = Idle

\* The call of the detector on the batch: _detect_price_manipulation,
\* InsiderTradingDetector.analyze_wallet, PoolDominationDetector.analyze or
\* SnipingBotDetector.analyze_wallet.
Divide ==
    /\ pc = 0
    /\ pc' = 1
    /\ result' =
         CASE config = "ConcentratedLiquidityAttackDetector" ->
                [raised |-> DetectPriceManipulation(ParsePoolData(data).swaps).raised,
                 returned |-> DetectPriceManipulation(ParsePoolData(data).swaps).attacks]
           [] config = "InsiderTradingDetector" ->
                [raised |-> InsiderAnalyzeWallet(ParseAll(data).swaps, 30, now).raised,
                 returned |-> InsiderAnalyzeWallet(ParseAll(data).swaps, 30, now).trades]
           [] config = "PoolDominationDetector" ->
                [raised |-> FALSE,
                 returned |-> PoolDominationAnalyze(ParsePoolData(data).swaps)]
           [] OTHER ->
                [raised |-> FALSE,
                 returned |-> SnipingAnalyzeWallet(ParseAll(data).swaps)]
    /\ UNCHANGED <<data, attacks_found, heap, locals, now, config>>

SpecDivide == InitDivide /\ [][Divide]_vars

\* C13: no detector raises because a divisor taken from the data is zero
\* (the price of the next trade, an entry price, the total volume of the
\* pool, the number of new positions).
C13_ZeroDivisorNeverRaises ==
    pc = 1 => ~result.raised

----------------------------------------------------------------------------
(* CryptoAnomalyDetectionSystem: the detectors of a sensitivity preset.     *)
(* Thresholds that are fractions in the code are in percent.                *)

\* PriceManipulationDetector.__init__
PriceManipulationDetectorInit(price_spike_threshold, volume_spike_multiplier, min_manipulation_value) ==
    [price_threshold |-> price_spike_threshold,
     volume_multiplier |-> volume_spike_multiplier,
     min_value |-> min_manipulation_value]

\* The presets with the price spike threshold of low at 0.10.
CryptoAnomalyDetectionSystemInitMutLow(sensitivity) ==
    IF sensitivity = "low"
    THEN [wash_detector |-> WashTradingDetectorInit(5, 10, 5000),
          price_detector |-> PriceManipulationDetectorInit(10, 15, 10000),
          pump_detector |-> PumpAndDumpDetectorInit(70, 40, 15)]
    ELSE IF sensitivity = "high"
    THEN [wash_detector |-> WashTradingDetectorInit(2, 3, 500),
          price_detector |-> PriceManipulationDetectorInit(10, 5, 1000),
          pump_detector |-> PumpAndDumpDetectorInit(25, 15, 5)]
    ELSE [wash_detector |-> WashTradingDetectorInit(3, 5, 1000),
          price_detector |-> PriceManipulationDetectorInit(15, 10, 5000),
          pump_detector |-> PumpAndDumpDetectorInit(50, 30, 10)]
\* __init__ with a high preset that keeps the default volume threshold.
CryptoAnomalyDetectionSystemInitMutHigh(sensitivity) ==
    [wash_detector |-> IF sensitivity = "low" THEN WashTradingDetectorInit(5, 10, 5000)
                       ELSE IF sensitivity = "high" THEN WashTradingDetectorInit(2, 3, 1000)
                       ELSE WashTradingDetectorInit(3, 5, 1000)]

\* CryptoAnomalyDetectionSystem.__init__: any sensitivity other than "low"
\* and "high" constructs the detectors with their defaults.
CryptoAnomalyDetectionSystemInit(sensitivity) ==
    IF sensitivity = "low"
    THEN [wash_detector |-> WashTradingDetectorInit(5, 10, 5000),
          price_detector |-> PriceManipulationDetectorInit(20, 15, 10000),
          pump_detector |-> PumpAndDumpDetectorInit(70, 40, 15)]
    ELSE IF sensitivity = "high"
    THEN [wash_detector |-> WashTradingDetectorInit(2, 3, 500),
          price_detector |-> PriceManipulationDetectorInit(10, 5, 1000),
          pump_detector |-> PumpAndDumpDetectorInit(25, 15, 5)]
    ELSE [wash_detector |-> WashTradingDetectorInit(3, 5, 1000),
          price_detector |-> PriceManipulationDetectorInit(15, 10, 5000),
          pump_detector |-> PumpAndDumpDetectorInit(50, 30, 10)]

\* A batch is at hand and no system is constructed yet.
InitSystem ==
    /\ data \in WashBatches(3)
    /\ pc = -1
    /\ config = Idle
    /\ locals = Idle
    /\ result = Idle
    /\ attacks_found = Idle
    /\ heap = Idle
    /\ now = Idle

\* CryptoAnomalyDetectionSystem(key, sensitivity): config is the wash
\* detector of the system.
Construct(sensitivity) ==
    /\ pc = -1
    /\ pc' = 0
    /\ config' = CryptoAnomalyDetectionSystemInit(sensitivity).wash_detector
    /\ locals' = [sensitivity |-> sensitivity]
    /\ UNCHANGED <<data, result, attacks_found, heap, now>>

NextSystem ==
    \/ \E sensitivity \in {"low", "medium", "high", "max"} : Construct(sensitivity)
    \/ DetectWash

SpecSystem == InitSystem /\ [][NextSystem]_vars

\* C15 as stated: the low and the high preset differ from medium in all five
\* wash-trading parameters.
C15_PresetsScaleFiveParameters ==
    (pc >= 0 /\ locals.sensitivity \in {"low", "high"}) =>
        /\ config.time_window # 60
        /\ config.min_round_trips # 3
        /\ config.price_threshold # 2
        /\ config.min_same_block # 5
        /\ config.min_volume # 1000

\* C15 amended: a preset sets the minimum round trips, the minimum
\* same-block trade count and the minimum volume (higher for low, lower for
\* high, 3, 5 and $1000 for medium and for any other name); the time window
\* is 60 minutes and the price deviation threshold 2% in every preset.
C15_PresetsScaleThreeParameters ==
    pc >= 0 =>
        /\ config.time_window = 60
        /\ config.price_threshold = 2
        /\ <<config.min_round_trips, config.min_same_block, config.min_volume>> =
              CASE locals.sensitivity = "low" -> <<5, 10, 5000>>
                [] locals.sensitivity = "high" -> <<2, 3, 500>>
                [] OTHER -> <<3, 5, 1000>>

\* The detector of the high preset has run on a batch and flagged a wallet
\* that the medium thresholds would not flag.
C15_Witness ==
    /\ pc = 1
    /\ locals.sensitivity = "high"
    /\ result.detected_count = 1
    /\ WashDetect(data, WashTradingDetectorInit(3, 5, 1000)).detected_count = 0

----------------------------------------------------------------------------
(* PumpAndDumpDetector.detect, over raw events whose prices are positive    *)
(* numbers.  Times are minutes, thresholds and changes are in percent.      *)

\* Line 343 with an inclusive comparison on the volume.
IsDumpSignificantMutInclusive(cfg, unique_dumpers, dump_volume) ==
    unique_dumpers >= cfg.min_wallets /\ dump_volume >= 50000

\* Line 343
IsDumpSignificant(cfg, unique_dumpers, dump_volume) ==
    unique_dumpers >= cfg.min_wallets /\ dump_volume > 50000

\* PumpAndDumpDetector.detect.  df is the batch sorted by time; the price
\* change of a row is taken over min(len - 1, 10) rows of its pair and is
\* NaN for the first rows of the pair; a ratio is <<numerator, denominator>>.
PumpAndDumpDetect(transactions, cfg) ==
    IF Len(transactions) < 50
    THEN [detected_schemes |-> <<>>, num_schemes |-> 0, high_confidence |-> <<>>]
    ELSE
    LET n == Len(transactions)
        rank == <<>> \o [i \in 1..n |->
                    1 + Cardinality({j \in 1..n :
                        \/ transactions[j].blockTimestamp < transactions[i].blockTimestamp
                        \/ /\ transactions[j].blockTimestamp = transactions[i].blockTimestamp
                           /\ j < i})]
        df == <<>> \o [k \in 1..n |-> transactions[CHOOSE i \in 1..n : rank[i] = k]]
        position == <<>> \o [k \in 1..n |->
                        Cardinality({j \in 1..k : df[j].pairAddress = df[k].pairAddress})]
        periods(k) ==
            Min(Cardinality({j \in 1..n : df[j].pairAddress = df[k].pairAddress}) - 1, 10)
        earlier(k) == {j \in 1..k : /\ df[j].pairAddress = df[k].pairAddress
                                    /\ position[j] = position[k] - periods(k)}
        previous(k) == df[CHOOSE j \in earlier(k) : TRUE].baseQuotePrice
        is_pump(k) == /\ earlier(k) # {}
                      /\ (df[k].baseQuotePrice - previous(k)) * 100
                            > cfg.pump_threshold * previous(k)
        dump_window(k) == {j \in 1..n :
                            /\ df[j].blockTimestamp > df[k].blockTimestamp
                            /\ df[j].blockTimestamp
                                    <= df[k].blockTimestamp + cfg.time_window}
        sell_all(k) == {j \in dump_window(k) : df[j].subCategory = "sellAll"}
        unique_dumpers(k) == Cardinality({df[j].walletAddress : j \in sell_all(k)})
        dump_volume(k) == SumSeq([j \in 1..n |-> IF j \in sell_all(k)
                                                 THEN df[j].totalValueUsd ELSE 0])
        price_after(k) ==
            df[CHOOSE j \in dump_window(k) : \A m \in dump_window(k) : m <= j].baseQuotePrice
        drop(k) == <<df[k].baseQuotePrice - price_after(k), df[k].baseQuotePrice>>
        is_scheme(k) == /\ is_pump(k)
                        /\ IsDumpSignificant(cfg, unique_dumpers(k), dump_volume(k))
                        /\ dump_window(k) # {}
                        /\ drop(k)[1] * 100 >= cfg.dump_threshold * drop(k)[2]
        scheme(k) ==
            [pump_time |-> df[k].blockTimestamp,
             pump_price_increase |-> <<df[k].baseQuotePrice - previous(k), previous(k)>>,
             dump_price_decrease |-> drop(k),
             dump_wallets |-> unique_dumpers(k),
             dump_volume |-> dump_volume(k),
             confidence |->
                CalculateConfidence(cfg, unique_dumpers(k),
                    ((df[k].baseQuotePrice - previous(k)) * 100) \div previous(k),
                    (drop(k)[1] * 100) \div drop(k)[2], dump_volume(k))]
        pumps == SelectSeq([k \in 1..n |-> k], LAMBDA k : is_scheme(k))
        schemes == [q \in DOMAIN pumps |-> scheme(pumps[q])]
    IN  [detected_schemes |-> schemes,
         num_schemes |-> Len(schemes),
         high_confidence |-> SelectSeq(schemes, LAMBDA s : s.confidence > 75)]

----------------------------------------------------------------------------
(* One PumpAndDumpDetector.detect call on a batch of 49 or 50 events *)

\* The high preset or a detector with the default thresholds and two
\* wallets.  The batch, all on one pair: quiet trades at price 100 and
\* minute 0, a trade at minute 10 whose price is at, just above or far above
\* the pump threshold, then sellAll trades of min_wallets - 1 or min_wallets
\* events (the last by a new wallet or by the first one again) that sum to
\* $50,000 or a little more, the first at minute 10 or 11 and the last at
\* minute 250 or 251, at a price that is a drop of the far pump by the dump
\* threshold or less, and with or without a last trade that is no sellAll.
InitPump ==
    /\ config \in {PumpAndDumpDetectorInit(25, 15, 5), PumpAndDumpDetectorInit(50, 30, 2)}
    /\ \E size \in {49, 50},
          pump_price \in {100 + config.pump_threshold, 101 + config.pump_threshold, 200},
          sells \in {config.min_wallets - 1, config.min_wallets},
          again \in BOOLEAN,
          extra_usd \in {0, 1},
          first_minute \in {10, 11},
          last_minute \in {250, 251},
          dump_price \in {100, 200 - 2 * config.dump_threshold,
                          201 - 2 * config.dump_threshold},
          closing \in {<<>>, <<"buy", 240, 200>>} :
          LET wallets == <<"0x1", "0x2", "0x3", "0x4", "0x5">>
              dumps == [i \in 1..sells |->
                          RawSwap(<<2, i>>, i, "sell", 2,
                                  IF i = 1 THEN first_minute
                                  ELSE IF i = sells THEN last_minute ELSE 11 + i,
                                  IF again /\ i = sells THEN wallets[1] ELSE wallets[i],
                                  "P", 1, 1,
                                  50000 \div config.min_wallets + extra_usd,
                                  dump_price, "sellAll")]
              close == IF closing = <<>> THEN <<>>
                       ELSE <<RawSwap(<<3, 0>>, 0, closing[1], 3, closing[2], "0xb",
                                      "P", 1, 1, 10, closing[3], "")>>
              quiet == [i \in 1..(size - 1 - sells - Len(close)) |->
                          RawSwap(<<0, i>>, i, "buy", 0, 0, "0xf", "P", 1, 1, 10, 100, "")]
          IN  data = quiet
                     \o <<RawSwap(<<1, 0>>, 0, "buy", 1, 10, "0xa", "P", 1, 1, 10,
                                  pump_price, "")>>
                     \o dumps \o close
    /\ pc = 0
    /\ result = Idle
    /\ attacks_found = Idle
    /\ heap = Idle
    /\ locals = Idle
    /\ now = Idle

DetectPump ==
    /\ pc = 0
    /\ pc' = 1
    /\ result' = PumpAndDumpDetect(data, config)
    /\ UNCHANGED <<data, attacks_found, heap, locals, now, config>>

SpecPump == InitPump /\ [][DetectPump]_vars

\* C17: below 50 events no scheme is reported; from 50 events on, a trade
\* whose price change over the pump window (here the trade ten places
\* earlier in time order, the batch being one pair) exceeds pump_threshold
\* is reported as a scheme if and only if, among the events strictly after
\* it and at most time_window later, the distinct wallets of the sellAll
\* trades are at least min_wallets, their dollars sum to more than 50,000,
\* and the drop from the pump price to the price of the last event of that
\* window is at least dump_threshold.
C17_SchemeIffDumpConfirmed ==
    pc = 1 =>
        IF Len(data) < 50
        THEN result.num_schemes = 0 /\ result.detected_schemes = <<>>
        ELSE
        LET n == Len(data)
            place == <<>> \o [i \in 1..n |->
                        Cardinality({j \in 1..n :
                            \/ data[j].blockTimestamp < data[i].blockTimestamp
                            \/ /\ data[j].blockTimestamp = data[i].blockTimestamp
                               /\ j < i})]
            pumped(i) ==
                /\ place[i] >= 10
                /\ LET before == data[CHOOSE j \in 1..n : place[j] = place[i] - 10]
                   IN  (data[i].baseQuotePrice - before.baseQuotePrice) * 100
                          > config.pump_threshold * before.baseQuotePrice
            window(i) == {j \in 1..n :
                            /\ data[j].blockTimestamp > data[i].blockTimestamp
                            /\ data[j].blockTimestamp
                                  <= data[i].blockTimestamp + config.time_window}
            confirmed(i) ==
                LET sellers == {j \in window(i) : data[j].subCategory = "sellAll"}
                    last == CHOOSE j \in window(i) : \A m \in window(i) : place[m] <= place[j]
                IN  /\ Cardinality({data[j].walletAddress : j \in sellers})
                            >= config.min_wallets
                    /\ SumSeq([j \in 1..n |-> IF j \in sellers
                                              THEN data[j].totalValueUsd ELSE 0]) > 50000
                    /\ (data[i].baseQuotePrice - data[last].baseQuotePrice) * 100
                            >= config.dump_threshold * data[i].baseQuotePrice
        IN  /\ result.num_schemes = Len(result.detected_schemes)
            /\ \A t \in {data[i].blockTimestamp : i \in 1..n} :
                  Cardinality({q \in DOMAIN result.detected_schemes :
                                  result.detected_schemes[q].pump_time = t})
                  = Cardinality({i \in 1..n : /\ data[i].blockTimestamp = t
                                              /\ pumped(i)
                                              /\ confirmed(i)})

\* A scheme is reported in a batch of 50 with every condition at its edge:
\* exactly min_wallets dumpers, a drop of exactly dump_threshold, and the
\* last sellAll trade at the end of the window.
C17_Witness ==
    /\ pc = 1
    /\ Len(data) = 50
    /\ result.num_schemes = 1
    /\ result.detected_schemes[1].dump_wallets = config.min_wallets
    /\ result.detected_schemes[1].dump_volume = 50000 + config.min_wallets
    /\ result.detected_schemes[1].dump_price_decrease[1] * 100
          = config.dump_threshold * result.detected_schemes[1].dump_price_decrease[2]

----------------------------------------------------------------------------
(* PriceManipulationDetector.detect, over raw events whose prices are       *)
(* positive numbers.  A ratio is <<numerator, denominator>>; rows of one    *)
(* block keep the order of the batch when sorted.                           *)

\* Lines 243-247 with an inclusive comparison on the value.
IsManipulationMutInclusive(cfg, price_change, volume_spike, value_usd) ==
    /\ Abs(price_change[1]) * 100 > cfg.price_threshold * price_change[2]
    /\ volume_spike[1] > cfg.volume_multiplier * volume_spike[2]
    /\ value_usd >= cfg.min_value

\* Lines 243-247 with an inclusive comparison on the volume spike.
IsManipulationMutSpikeInclusive(cfg, price_change, volume_spike, value_usd) ==
    /\ Abs(price_change[1]) * 100 > cfg.price_threshold * price_change[2]
    /\ volume_spike[1] >= cfg.volume_multiplier * volume_spike[2]
    /\ value_usd > cfg.min_value
\* Lines 243-247: price_change is a fraction and the threshold a percentage.
IsManipulation(cfg, price_change, volume_spike, value_usd) ==
    /\ Abs(price_change[1]) * 100 > cfg.price_threshold * price_change[2]
    /\ volume_spike[1] > cfg.volume_multiplier * volume_spike[2]
    /\ value_usd > cfg.min_value

\* PriceManipulationDetector.detect with _detect_coordinated_trading.  The
\* 'pair' of an event, the label of its pair, is not part of a raw event.
PriceManipulationDetect(transactions, cfg) ==
    IF transactions = <<>>
    THEN [manipulation_events |-> <<>>, coordinated_trading |-> <<>>, total_events |-> 0]
    ELSE
    LET n == Len(transactions)
        rank == <<>> \o [i \in 1..n |->
                    1 + Cardinality({j \in 1..n :
                        \/ transactions[j].blockNumber < transactions[i].blockNumber
                        \/ /\ transactions[j].blockNumber = transactions[i].blockNumber
                           /\ j < i})]
        df == <<>> \o [k \in 1..n |-> transactions[CHOOSE i \in 1..n : rank[i] = k]]
        position == <<>> \o [k \in 1..n |->
                        Cardinality({j \in 1..k : df[j].pairAddress = df[k].pairAddress})]
        \* pct_change: over the previous row of the pair, NaN for the first
        price_change(k) ==
            LET previous == df[CHOOSE j \in 1..k :
                                /\ df[j].pairAddress = df[k].pairAddress
                                /\ position[j] = position[k] - 1].baseQuotePrice
            IN  <<df[k].baseQuotePrice - previous, previous>>
        \* rolling(window=20, min_periods=1).mean() over the rows of the pair
        rolling(k) == {j \in 1..k : /\ df[j].pairAddress = df[k].pairAddress
                                    /\ position[j] > position[k] - 20}
        volume_spike(k) ==
            <<df[k].totalValueUsd * Cardinality(rolling(k)),
              SumSeq([j \in 1..n |-> IF j \in rolling(k) THEN df[j].totalValueUsd ELSE 0])>>
        suspicious == SelectSeq([k \in 1..n |-> k],
                        LAMBDA k : /\ position[k] > 1
                                   /\ IsManipulation(cfg, price_change(k), volume_spike(k),
                                                     df[k].totalValueUsd))
        manipulations ==
            [q \in DOMAIN suspicious |->
                [timestamp |-> df[suspicious[q]].blockTimestamp,
                 block |-> df[suspicious[q]].blockNumber,
                 price_change |-> price_change(suspicious[q]),
                 volume_spike |-> volume_spike(suspicious[q]),
                 wallet |-> df[suspicious[q]].walletAddress,
                 value_usd |-> df[suspicious[q]].totalValueUsd]]
        \* _detect_coordinated_trading: the blocks in ascending order
        group(b) == SelectSeq(df, LAMBDA r : r.blockNumber = b)
        blocks == SelectSeq([k \in 1..n |-> k],
                    LAMBDA k : \A j \in 1..(k - 1) : df[j].blockNumber # df[k].blockNumber)
        total_value(b) == SumSeq([j \in DOMAIN group(b) |-> group(b)[j].totalValueUsd])
        unique_wallets(b) ==
            Cardinality({group(b)[j].walletAddress : j \in DOMAIN group(b)})
        crowded == SelectSeq(blocks,
                      LAMBDA k : /\ unique_wallets(df[k].blockNumber) >= 5
                                 /\ total_value(df[k].blockNumber) > 10000)
        coordinated ==
            [q \in DOMAIN crowded |->
                [block |-> df[crowded[q]].blockNumber,
                 timestamp |-> df[crowded[q]].blockTimestamp,
                 num_wallets |-> unique_wallets(df[crowded[q]].blockNumber),
                 total_value |-> total_value(df[crowded[q]].blockNumber),
                 wallets |-> LET g == group(df[crowded[q]].blockNumber)
                             IN  [j \in 1..Min(Len(g), 10) |-> g[j].walletAddress]]]
        \* max(abs(price_change), default=0): the first of the greatest
        highest ==
            IF manipulations = <<>> THEN <<0, 1>>
            ELSE LET top == CHOOSE q \in DOMAIN manipulations :
                        \A r \in DOMAIN manipulations :
                            Abs(manipulations[r].price_change[1])
                                    * manipulations[q].price_change[2]
                                <= Abs(manipulations[q].price_change[1])
                                    * manipulations[r].price_change[2]
                 IN  <<Abs(manipulations[top].price_change[1]),
                       manipulations[top].price_change[2]>>
    IN  [manipulation_events |-> manipulations,
         coordinated_trading |-> coordinated,
         total_events |-> Len(manipulations) + Len(coordinated),
         highest_spike |-> highest]

----------------------------------------------------------------------------
(* One PriceManipulationDetector.detect call on a batch *)

\* The medium or the high preset.  The batch, latest block first: with or
\* without an old trade of $1,000,000, then quiet trades of $100 at price
\* 100 on pair P, one per block, with or without a trade on pair Q at
\* another price, then a trade on P whose price is at or beyond the spike
\* threshold and whose value is at or above min_value or the multiple of the
\* rolling mean, and with or without a last block of four or five wallets.
InitPrice ==
    /\ config \in {PriceManipulationDetectorInit(15, 10, 5000),
                   PriceManipulationDetectorInit(10, 5, 1000)}
    /\ \E old \in BOOLEAN,
          quiet \in {5, 9, 10, 12, 18, 19},
          other \in BOOLEAN,
          price \in {100 + config.price_threshold, 101 + config.price_threshold,
                     99 - config.price_threshold},
          usd \in {config.min_value, config.min_value + 1,
                   500 * config.volume_multiplier, 500 * config.volume_multiplier + 1,
                   1000 * config.volume_multiplier,
                   1000 * config.volume_multiplier + 1},
          crowd \in {<<0, 0>>, <<4, 3000>>, <<5, 2000>>, <<5, 2001>>} :
          LET wallets == <<"0x1", "0x2", "0x3", "0x4", "0x5">>
              ascending ==
                  (IF old THEN <<RawSwap(<<0, 0>>, 0, "buy", 0, 0, "0xf", "P", 1, 1,
                                         1000000, 100, "")>>
                   ELSE <<>>)
                  \o [i \in 1..quiet |->
                        RawSwap(<<i, 0>>, 0, "buy", i, i, "0xf", "P", 1, 1, 100, 100, "")]
                  \o (IF other THEN <<RawSwap(<<30, 0>>, 0, "buy", 30, 30, "0xb", "Q",
                                              1, 1, 100, 500, "")>>
                      ELSE <<>>)
                  \o <<RawSwap(<<31, 0>>, 0, "buy", 31, 31, "0xa", "P", 1, 1, usd,
                               price, "")>>
                  \o [i \in 1..crowd[1] |->
                        RawSwap(<<32, i>>, i, "sell", 32, 32, wallets[i], "P", 1, 1,
                                crowd[2], price, "")]
          IN  data = [i \in 1..Len(ascending) |-> ascending[Len(ascending) + 1 - i]]
    /\ pc = 0
    /\ result = Idle
    /\ attacks_found = Idle
    /\ heap = Idle
    /\ locals = Idle
    /\ now = Idle

DetectPrice ==
    /\ pc = 0
    /\ pc' = 1
    /\ result' = PriceManipulationDetect(data, config)
    /\ UNCHANGED <<data, attacks_found, heap, locals, now, config>>

SpecPrice == InitPrice /\ [][DetectPrice]_vars

----------------------------------------------------------------------------
(* One SnipingBotDetector.analyze_wallet call on a wallet's history *)

\* The history, latest first: four buys that add to a position of 0xT2, up
\* to two sells of 0xT1 after its snipe, the snipe (a new position of 0xT1
\* at price 100, block 3), with or without a sell of 0xT1 before it, and
\* none, nine or twelve older new positions of 0xT3, which is never sold.
InitSnipe ==
    /\ config = "SnipingBotDetector"
    /\ \E before \in {0, 90, 150}, after \in {0, 90, 150}, last \in {0, 90, 150},
          older \in {0, 9, 12} :
          LET Trade(b, type, token, price, sub) ==
                  [RawSwap(<<b, 0>>, 0, type, b, b, "0xa", "P", 1, 1, 100, price, sub)
                      EXCEPT !.baseToken = token]
              Sell(b, price) == IF price = 0 THEN <<>>
                                ELSE <<Trade(b, "sell", "0xT1", price, "")>>
          IN  data = [i \in 1..4 |-> Trade(14 - i, "buy", "0xT2", 100, "accumulation")]
                     \o Sell(6, last) \o Sell(5, after)
                     \o <<Trade(3, "buy", "0xT1", 100, "newPosition")>>
                     \o Sell(1, before)
                     \o [i \in 1..older |-> Trade(0, "buy", "0xT3", 100, "newPosition")]
    /\ now = 30
    /\ pc = 0
    /\ result = Idle
    /\ attacks_found = Idle
    /\ heap = Idle
    /\ locals = Idle

SpecSnipe == InitSnipe /\ [][Divide]_vars

\* C20: among the first 10 new positions, a snipe is successful if and only
\* if the wallet has no sell of its token in the batch or a sell of the
\* token later than the snipe has a higher price than the snipe; the count
\* is at most min(total_snipes, 10) and success_rate is in [0, 100].
C20_SuccessfulSnipeIff ==
    pc = 1 =>
        LET positions == SelectSeq([i \in DOMAIN data |-> i],
                            LAMBDA i : /\ data[i].transactionType = "buy"
                                       /\ data[i].subCategory = "newPosition")
            sells(i) == {j \in DOMAIN data : /\ data[j].transactionType = "sell"
                                             /\ data[j].baseToken = data[i].baseToken}
            successful(i) ==
                \/ sells(i) = {}
                \/ \E j \in sells(i) : /\ data[j].blockNumber > data[i].blockNumber
                                       /\ data[j].baseQuotePrice > data[i].baseQuotePrice
        IN  /\ result.returned.successful_snipes
                  = Cardinality({k \in 1..Min(Len(positions), 10) :
                                    successful(positions[k])})
            /\ result.returned.successful_snipes <= Min(result.returned.total_snipes, 10)
            /\ result.returned.success_rate[1] >= 0
            /\ result.returned.success_rate[1] <= 100 * result.returned.success_rate[2]

----------------------------------------------------------------------------
(* The sniping bot profile of a wallet, its report and the API response *)

\* detect_sniping_bot, app.py lines 607-615: the classification of the
\* response.
ClassificationMutExclusive(bot_confidence_score) ==
    IF bot_confidence_score > 70 THEN "HIGHLY LIKELY SNIPING BOT"
    ELSE IF bot_confidence_score >= 50 THEN "PROBABLE SNIPING BOT"
    ELSE IF bot_confidence_score >= 30 THEN "POSSIBLE SNIPING BOT"
    ELSE "UNLIKELY TO BE A BOT"
Classification(bot_confidence_score) ==
    IF bot_confidence_score >= 70 THEN "HIGHLY LIKELY SNIPING BOT"
    ELSE IF bot_confidence_score >= 50 THEN "PROBABLE SNIPING BOT"
    ELSE IF bot_confidence_score >= 30 THEN "POSSIBLE SNIPING BOT"
    ELSE "UNLIKELY TO BE A BOT"

\* SnipingBotDetector.print_report, the lines under "Bot Classification".
PrintedClassification(bot_confidence_score) ==
    IF bot_confidence_score >= 70 THEN "HIGHLY LIKELY SNIPING BOT"
    ELSE IF bot_confidence_score >= 50 THEN "PROBABLE SNIPING BOT"
    ELSE IF bot_confidence_score >= 30 THEN "POSSIBLE SNIPING BOT"
    ELSE "UNLIKELY TO BE A BOT"

\* The history of the wallet, latest first: sells, buys that add to a
\* position, and new positions spread over a number of tokens, each at a
\* transaction index of the pattern (all at one index, or alternately at 0
\* and at 100, or at 0 and at 98).
InitBot ==
    /\ config = "SnipingBotDetector"
    /\ \E sells \in {0, 6}, adds \in {0, 3, 4, 5, 9, 10},
          news \in {0, 1, 4, 5, 7, 10, 11, 20, 21},
          tokens \in {1, 5, 6, 10, 11},
          index \in {<<0, 0>>, <<49, 49>>, <<50, 50>>, <<99, 99>>, <<100, 100>>,
                     <<0, 100>>, <<0, 98>>} :
          LET Trade(b, idx, type, token, sub) ==
                  [RawSwap(<<b, idx>>, idx, type, b, b, "0xa", "P", 1, 1, 100, 100, sub)
                      EXCEPT !.baseToken = token, !.boughtSymbol = token]
          IN  data = [i \in 1..sells |-> Trade(100 - i, 7, "sell", 0, "")]
                     \o [i \in 1..adds |-> Trade(80 - i, 150, "buy", 0, "accumulation")]
                     \o [i \in 1..news |->
                            Trade(60 - i, index[1 + (i % 2)], "buy",
                                  1 + (i % tokens), "newPosition")]
    /\ now = 30
    /\ pc = 0
    /\ result = Idle
    /\ attacks_found = Idle
    /\ heap = Idle
    /\ locals = Idle

\* GET /api/v1/sniping-bot: analyze_wallet, then the response with its
\* classification.
DetectSnipingBot ==
    /\ pc = 0
    /\ pc' = 1
    /\ LET bot_profile == SnipingAnalyzeWallet(ParseAll(data).swaps)
       IN  result' = [raised |-> FALSE,
                      via |-> "api",
                      returned |-> bot_profile,
                      classification |->
                         IF ~bot_profile.bot THEN "NOT A BOT"
                         ELSE Classification(bot_profile.bot_confidence_score)]
    /\ UNCHANGED <<data, attacks_found, heap, locals, now, config>>

\* The script of wallet_behavior.py: analyze_wallet, then print_report,
\* which prints nothing for None.
PrintReport ==
    /\ pc = 0
    /\ pc' = 1
    /\ LET bot == SnipingAnalyzeWallet(ParseAll(data).swaps)
       IN  result' = [raised |-> FALSE,
                      via |-> "report",
                      returned |-> bot,
                      classification |->
                         IF ~bot.bot THEN ""
                         ELSE PrintedClassification(bot.bot_confidence_score)]
    /\ UNCHANGED <<data, attacks_found, heap, locals, now, config>>

SpecBot == InitBot /\ [][DetectSnipingBot \/ PrintReport]_vars

\* The events of the batch that are buys, and those that open a position.
BuyEvents == {i \in DOMAIN data : data[i].transactionType = "buy"}
SnipeEvents == {i \in BuyEvents : data[i].subCategory = "newPosition"}

\* The sum of the transaction indices of the events of a set.
RECURSIVE IndexSum(_)
IndexSum(events) ==
    IF events = {} THEN 0
    ELSE LET i == CHOOSE e \in events : TRUE
         IN  data[i].transactionIndex + IndexSum(events \ {i})

\* The score the four tiers give to the batch.
TierScore ==
    LET buys == Cardinality(BuyEvents)
        snipes == Cardinality(SnipeEvents)
        unique == Cardinality({data[i].baseToken : i \in SnipeEvents})
        speed == IF snipes = 0 THEN <<0, 1>> ELSE <<IndexSum(SnipeEvents), snipes>>
    IN  (IF 10 * snipes > 7 * buys THEN 30 ELSE IF 10 * snipes > 5 * buys THEN 20 ELSE 0)
        + (IF unique > 10 THEN 25 ELSE IF unique > 5 THEN 15 ELSE 0)
        + (IF snipes > 20 THEN 20 ELSE IF snipes > 10 THEN 10 ELSE 0)
        + (IF speed[1] < 50 * speed[2] THEN 25
           ELSE IF speed[1] < 100 * speed[2] THEN 15 ELSE 0)

\* C21: analyze_wallet returns None if and only if the batch has fewer than
\* 5 buys; otherwise bot_confidence_score is the sum of the four tier
\* bonuses (ratio of new positions, unique tokens, number of snipes, mean
\* transaction index of the new positions, 0 without any) capped at 100, and
\* the report and the API response both classify the score as >= 70 highly
\* likely, >= 50 probable, >= 30 possible, else unlikely.
C21_BotConfidenceTiers ==
    pc = 1 =>
        /\ ~result.returned.bot <=> Cardinality(BuyEvents) < 5
        /\ result.returned.bot =>
              /\ result.returned.bot_confidence_score = Min(100, TierScore)
              /\ result.classification =
                    (CASE result.returned.bot_confidence_score >= 70 ->
                              "HIGHLY LIKELY SNIPING BOT"
                       [] result.returned.bot_confidence_score \in 50..69 ->
                              "PROBABLE SNIPING BOT"
                       [] result.returned.bot_confidence_score \in 30..49 ->
                              "POSSIBLE SNIPING BOT"
                       [] OTHER -> "UNLIKELY TO BE A BOT")

\* Twenty new positions among twenty buys, on ten tokens, at a mean index of
\* exactly 50: 30 + 15 + 10 + 15 = 70, highly likely, in the API response.
C21_Witness ==
    /\ pc = 1
    /\ result.via = "api"
    /\ Cardinality(BuyEvents) = 20
    /\ Cardinality(SnipeEvents) = 20
    /\ IndexSum(SnipeEvents) = 1000
    /\ result.returned.bot_confidence_score = 70
    /\ result.classification = "HIGHLY LIKELY SNIPING BOT"

----------------------------------------------------------------------------
(* InsiderTradingDetector.analyze_wallet with the caller's minimum score *)

\* The history of the wallet: the entry into 0xT1 at minute 0, block 1, at
\* price 100, and a later buy of 0xT1 in block 5, given latest first or
\* earliest first, around an optional position in 0xT2 (one buy, in block 3
\* at minute 1000) and an optional one in 0xT3 (two buys, the later one at
\* a lower price).
InitInsider ==
    /\ config \in [detector : {"insider"}, min_suspicion_score : {0, 25, 30, 45, 65, 80}]
    /\ \E latest_price \in {100, 115, 116, 130, 131, 150, 151},
          usd \in {10000, 10001, 50000, 50001},
          sub \in {"newPosition", "accumulation"},
          latest_first \in BOOLEAN,
          second \in {<<>>, <<5000, 100>>, <<60000, 100>>},
          third \in BOOLEAN :
          LET entry == WalletBuy(1, 0, <<"0xT1", "T1">>, usd, 100, sub)
              later == WalletBuy(5, 20, <<"0xT1", "T1">>, 1000, latest_price,
                                 "accumulation")
              other == IF second = <<>> THEN <<>>
                       ELSE <<WalletBuy(3, 1000, <<"0xT2", "T2">>, second[1],
                                        second[2], "newPosition")>>
              more == IF third
                      THEN <<WalletBuy(4, 15, <<"0xT3", "T3">>, 20000, 90, "accumulation"),
                             WalletBuy(2, 10, <<"0xT3", "T3">>, 20000, 100, "newPosition")>>
                      ELSE <<>>
          IN  data = IF latest_first
                     THEN <<later>> \o more \o other \o <<entry>>
                     ELSE <<entry>> \o other \o more \o <<later>>
    /\ now \in {1439, 1440}
    /\ pc = 0
    /\ result = <<>>
    /\ attacks_found = Idle
    /\ heap = Idle
    /\ locals = Idle

SpecInsider == InitInsider /\ [][RunInsider]_vars

\* The tokens the wallet bought, and the buys of one of them.
TokensBought == {data[i].baseToken : i \in {j \in DOMAIN data : data[j].transactionType = "buy"}}
BuysOfToken(t) == {i \in DOMAIN data : data[i].transactionType = "buy" /\ data[i].baseToken = t}

\* The score of the position in token t: the entry is the buy of lowest
\* block number, the current price that of the buy of highest block number.
PositionScore(t) ==
    LET entry == data[CHOOSE i \in BuysOfToken(t) :
                        \A j \in BuysOfToken(t) : data[i].blockNumber <= data[j].blockNumber]
        latest == data[CHOOSE i \in BuysOfToken(t) :
                        \A j \in BuysOfToken(t) : data[i].blockNumber >= data[j].blockNumber]
        gain == (latest.baseQuotePrice - entry.baseQuotePrice) * 100
        base == entry.baseQuotePrice
    IN  Min(100,
            (IF gain > 50 * base THEN 30 ELSE IF gain > 30 * base THEN 20
             ELSE IF gain > 15 * base THEN 10 ELSE 0)
          + (IF entry.subCategory = "newPosition" THEN 15 ELSE 0)
          + (IF entry.totalValueUsd > 50000 THEN 20
             ELSE IF entry.totalValueUsd > 10000 THEN 10 ELSE 0)
          + (IF now - entry.blockTimestamp < 1440 THEN 15 ELSE 0))

\* C22: analyze_wallet returns exactly the per-token trades whose
\* suspicion_score is >= min_suspicion_score, one per token bought, ordered
\* by score descending; the score is the sum of the tier bonuses (gain > 50%
\* 30, > 30% 20, > 15% 10; newPosition entry 15; entry value > $50k 20,
\* > $10k 10; less than a day since the entry 15) capped at 100, the entry
\* being the buy of lowest block and the current price that of the buy of
\* highest block.
C22_InsiderTradesScored ==
    \A r \in DOMAIN result :
        LET trades == result[r]
        IN  /\ {trades[k].token_address : k \in DOMAIN trades}
                  = {t \in TokensBought : PositionScore(t) >= config.min_suspicion_score}
            /\ \A k, l \in DOMAIN trades :
                  trades[k].token_address = trades[l].token_address => k = l
            /\ \A k \in DOMAIN trades :
                  trades[k].suspicion_score = PositionScore(trades[k].token_address)
            /\ \A k \in 1..(Len(trades) - 1) :
                  trades[k].suspicion_score >= trades[k + 1].suspicion_score

\* Three positions with the minimum at 45: 0xT1 entered with $50,001, up
\* 51% less than a day ago scores 65 and comes first although it is the
\* last event of the batch, 0xT2 scores 50, 0xT3 is left out with 40.
C22_Witness ==
    /\ pc >= 1
    /\ config.min_suspicion_score = 45
    /\ Len(data) = 5
    /\ data[5].baseToken = "0xT1"
    /\ Len(result[1]) = 2
    /\ result[1][1].token_address = "0xT1"
    /\ result[1][1].suspicion_score = 65
    /\ result[1][2].token_address = "0xT2"
    /\ result[1][2].suspicion_score = 50

----------------------------------------------------------------------------
(* LiquidityPoolManipulationDetector.  A risk score is a whole number of    *)
(* 1/60000 of a point, so that value / 1000, value / 500 and a ratio over   *)
(* up to five events times 50 are exact.                                    *)

\* sorted(txs, key=block_number, reverse=True)[:5], without the sort.
RecentTxsMutUnsorted(txs) ==
    SubSeq(txs, 1, Min(Len(txs), 5))
\* sorted(txs, key=block_number, reverse=True)[:5]
RecentTxs(txs) ==
    SubSeq(SortBy(txs, "block_number", TRUE), 1, Min(Len(txs), 5))

\* _detect_rug_pull_pattern
DetectRugPullPattern(swaps) ==
    LET wallets == KeysInOrder(swaps, "wallet_address")
        manipulation(wallet) ==
            LET txs == SelectSeq(swaps, LAMBDA tx : tx.wallet_address = wallet)
                sells == SelectSeq(txs, LAMBDA tx : tx.transaction_type = "sell")
                total_sell_value == SumSeq([i \in DOMAIN sells |-> sells[i].total_value_usd])
                recent_txs == RecentTxs(txs)
                recent_sells == Len(SelectSeq(recent_txs,
                                        LAMBDA tx : tx.transaction_type = "sell"))
            IN  IF /\ Len(sells) >= 3
                   /\ total_sell_value > 10000
                   /\ recent_sells * 10 > 7 * Len(recent_txs)
                THEN <<[manipulation_type |-> "Potential Rug Pull",
                        severity |-> IF total_sell_value > 50000 THEN "HIGH" ELSE "MEDIUM",
                        timestamp |-> sells[1].block_timestamp,
                        block_number |-> sells[1].block_number,
                        involved_wallets |-> {wallet},
                        total_value_usd |-> total_sell_value,
                        evidence_transactions |-> SubSeq(sells, 1, Min(Len(sells), 5)),
                        risk_score |->
                            Min(100 * 60000,
                                total_sell_value * 60
                                + (recent_sells * 50 * 60000) \div Len(recent_txs))]>>
                ELSE <<>>
    IN  Flatten([k \in DOMAIN wallets |-> manipulation(wallets[k])])

\* _detect_coordinated_dump
DetectCoordinatedDump(swaps) ==
    LET blocks == KeysInOrder(swaps, "block_number")
        manipulation(block_num) ==
            LET sells == SelectSeq(swaps, LAMBDA tx : /\ tx.block_number = block_num
                                                      /\ tx.transaction_type = "sell")
                wallets == {sells[i].wallet_address : i \in DOMAIN sells}
                unique_wallets == Cardinality(wallets)
                total_value == SumSeq([i \in DOMAIN sells |-> sells[i].total_value_usd])
            IN  IF Len(sells) >= 3 /\ unique_wallets >= 3 /\ total_value > 5000
                THEN <<[manipulation_type |-> "Coordinated Dump",
                        severity |-> IF total_value > 20000 THEN "HIGH" ELSE "MEDIUM",
                        timestamp |-> sells[1].block_timestamp,
                        block_number |-> block_num,
                        involved_wallets |-> wallets,
                        total_value_usd |-> total_value,
                        evidence_transactions |-> sells,
                        risk_score |->
                            Min(100 * 60000, unique_wallets * 15 * 60000 + total_value * 120)]>>
                ELSE <<>>
    IN  Flatten([k \in DOMAIN blocks |-> manipulation(blocks[k])])

\* The batch of the pool: three to six events of one wallet (written 0xa
\* or 0xA) in blocks of their own, given latest first or earliest first, the
\* sells worth the total between them; with or without three other wallets
\* that sell in one block.
InitLiquidity ==
    /\ \E n \in 3..6 :
       \E types \in [1..n -> {"buy", "sell"}],
          total \in {10000, 10001, 50000, 50001, 120000},
          latest_first \in BOOLEAN, dump \in BOOLEAN :
          LET first == CHOOSE i \in 1..n :
                          /\ types[i] = "sell"
                          /\ \A j \in 1..(i - 1) : types[j] = "buy"
              sells == Cardinality({i \in 1..n : types[i] = "sell"})
              usd(i) == IF types[i] = "buy" THEN 70000
                        ELSE IF i = first THEN total - 1000 * (sells - 1)
                        ELSE 1000
              Event(i) == RawSwap(<<i, 0>>, 0, types[i], i, i,
                                  IF i % 2 = 1 THEN "0xa" ELSE "0xA",
                                  "P", 1, 1, usd(i), 1, "")
              others == IF dump
                        THEN [k \in 1..3 |->
                                RawSwap(<<50, k>>, k, "sell", 50, 50,
                                        <<"0xb", "0xc", "0xd">>[k], "P", 1, 1, 2000, 1, "")]
                        ELSE <<>>
          IN  data = others \o [k \in 1..n |->
                                  Event(IF latest_first THEN n + 1 - k ELSE k)]
    /\ pc = 0
    /\ result = Idle
    /\ attacks_found = Idle
    /\ heap = Idle
    /\ locals = Idle
    /\ now = Idle
    /\ config = Idle

\* LiquidityPoolManipulationDetector.analyze: both detections, sorted by
\* risk score.
AnalyzeLiquidity ==
    /\ pc = 0
    /\ pc' = 1
    /\ LET swaps == ParsePoolData(data).swaps
       IN  result' = [raised |-> ~ParsePoolData(data).ok,
                      manipulations |->
                         SortBy(DetectRugPullPattern(swaps) \o DetectCoordinatedDump(swaps),
                                "risk_score", TRUE)]
    /\ UNCHANGED <<data, attacks_found, heap, locals, now, config>>

SpecLiquidity == InitLiquidity /\ [][AnalyzeLiquidity]_vars

\* The sells of a set of events, and the (up to) five events of wallet w of
\* highest block number.
SellsIn(events) == {i \in events : data[i].transactionType = "sell"}
RecentOf(w) == {i \in EventsOf(w) : Cardinality({j \in EventsOf(w) : data[j].blockNumber > data[i].blockNumber}) < 5}

\* The rug pull findings about wallet w.
RugPullsOf(w) ==
    {k \in DOMAIN result.manipulations :
        /\ result.manipulations[k].manipulation_type = "Potential Rug Pull"
        /\ result.manipulations[k].involved_wallets = {w}}

\* C23: a wallet is flagged as a potential rug pull if and only if it has
\* at least 3 sells whose summed value is > $10,000 and more than 0.7 of its
\* 5 events of highest block number (all of them if fewer) are sells; the
\* finding has severity HIGH if the sum is > $50,000 and MEDIUM otherwise,
\* and risk_score = min(100, sell_value / 1000 + sell_ratio * 50), which is
\* in [0, 100].
C23_RugPullIffSustainedSelling ==
    pc = 1 =>
        \A w \in {Lower(data[i].walletAddress) : i \in DOMAIN data} :
            LET sell_value == DollarsOf(SellsIn(EventsOf(w)))
                recent_sells == Cardinality(SellsIn(RecentOf(w)))
                recent == Cardinality(RecentOf(w))
                expected == /\ Cardinality(SellsIn(EventsOf(w))) >= 3
                            /\ sell_value > 10000
                            /\ 10 * recent_sells > 7 * recent
            IN  /\ Cardinality(RugPullsOf(w)) = IF expected THEN 1 ELSE 0
                /\ \A k \in RugPullsOf(w) :
                      /\ result.manipulations[k].severity
                            = IF sell_value > 50000 THEN "HIGH" ELSE "MEDIUM"
                      /\ result.manipulations[k].risk_score * recent
                            = Min(100 * 60000 * recent,
                                  sell_value * 60 * recent + recent_sells * 50 * 60000)
                      /\ result.manipulations[k].risk_score \in 0..(100 * 60000)

\* Six events given earliest first, a sell then a buy then four sells worth
\* $10,001 together: the five latest events hold four sells (0.8), the
\* wallet is flagged MEDIUM with risk 10.001 + 40.
C23_Witness ==
    /\ pc = 1
    /\ Len(data) = 6
    /\ data[1].transactionType = "sell" /\ data[1].blockNumber = 1
    /\ data[2].transactionType = "buy"
    /\ Cardinality(SellsIn(EventsOf("0xa"))) = 5
    /\ DollarsOf(SellsIn(EventsOf("0xa"))) = 10001
    /\ Len(result.manipulations) = 1
    /\ result.manipulations[1].severity = "MEDIUM"
    /\ result.manipulations[1].risk_score = 10001 * 60 + 40 * 60000

----------------------------------------------------------------------------
(* One analyze call on a block whose front run and back run differ in value *)

\* A buy of 0xa at index 0 and its sell at index 2 on pair P, worth any of
\* four amounts each, around a trade at index 1 of another wallet or of 0xa
\* itself (written 0xA), on P or on Q; given latest first or earliest first.
InitProfit ==
    /\ \E front_usd \in {0, 100, 200, 300}, back_usd \in {0, 100, 200, 300},
          middle \in {"0xb", "0xc", "0xA"}, pair \in {"P", "Q"},
          latest_first \in BOOLEAN :
          LET Event(i, type, wallet, p, usd) ==
                  RawSwap(<<1, i>>, i, type, 1, 1, wallet, p, 1, 1, usd, 1, "")
              block == <<Event(0, "buy", "0xa", "P", front_usd),
                         Event(1, "buy", middle, pair, 500),
                         Event(2, "sell", "0xa", "P", back_usd)>>
          IN  data = [k \in 1..3 |-> block[IF latest_first THEN 4 - k ELSE k]]
    /\ pc = 0
    /\ result = [raised |-> FALSE, error |-> "none", ref |-> Unset]
    /\ attacks_found = Unset
    /\ heap = <<>>
    /\ locals = Idle
    /\ now = Idle
    /\ config = Idle

SpecProfit == InitProfit /\ [][AnalyzeSandwich]_vars

\* C24: every finding has profit_usd = the back run's total USD value minus
\* the front run's, and a buy/victim/sell triple that meets the detection
\* conditions is reported also when that difference is zero or negative.
C24_ProfitIsValueDifference ==
    pc = 1 =>
        /\ ~result.raised
        /\ \A k \in DOMAIN Deref(result.ref) :
              Deref(result.ref)[k].profit_usd
                 = RawAt(1, Deref(result.ref)[k].back_run_tx.transaction_index).totalValueUsd
                   - RawAt(1, Deref(result.ref)[k].front_run_tx.transaction_index).totalValueUsd
        /\ Len(Deref(result.ref))
              = IF /\ Lower(RawAt(1, 1).walletAddress) # "0xa"
                   /\ RawAt(1, 1).pairAddress = "P"
                THEN 1 ELSE 0

\* A front run worth $300 and a back run worth $100 around 0xb: one attack
\* with a profit of -200.
C24_Witness ==
    /\ pc = 1
    /\ RawAt(1, 0).totalValueUsd = 300
    /\ RawAt(1, 2).totalValueUsd = 100
    /\ Len(Deref(result.ref)) = 1
    /\ Deref(result.ref)[1].victim_address = "0xb"
    /\ Deref(result.ref)[1].profit_usd = -200

----------------------------------------------------------------------------
(* The overall risk of a token.  A score is a whole number of 1/10000 of a  *)
(* point: volume / 100000 * 10 is volume / 10000 points.                    *)

\* CryptoAnomalyDetectionSystem._calculate_risk_score
CalculateRiskScore(wash, price, pump) ==
    LET volume_factor == Min(wash.total_suspicious_volume, 100000)
        manipulation_count == Len(price.manipulation_events)
        coordinated_count == Len(price.coordinated_trading)
        high_conf == Len(pump.high_confidence)
        total_schemes == pump.num_schemes
    IN  Min(100 * 10000,
            (IF wash.detected_count > 0
             THEN Min(wash.detected_count * 3, 25) * 10000 + volume_factor
             ELSE 0)
          + (IF manipulation_count > 0 THEN Min(manipulation_count * 10, 25) * 10000 ELSE 0)
          + (IF coordinated_count > 0 THEN Min(coordinated_count * 2, 10) * 10000 ELSE 0)
          + (IF high_conf > 0 THEN Min(high_conf * 15, 25) * 10000
             ELSE IF total_schemes > 0 THEN Min(total_schemes * 5, 10) * 10000
             ELSE 0))

\* _get_risk_level with > 75 for CRITICAL.
GetRiskLevelMutExclusive(wash, price, pump) ==
    LET score == CalculateRiskScore(wash, price, pump)
    IN  IF score > 75 * 10000 THEN "CRITICAL"
        ELSE IF score >= 50 * 10000 THEN "HIGH"
        ELSE IF score >= 25 * 10000 THEN "MEDIUM"
        ELSE IF score > 0 THEN "LOW"
        ELSE "MINIMAL"
\* CryptoAnomalyDetectionSystem._get_risk_level
GetRiskLevel(wash, price, pump) ==
    LET score == CalculateRiskScore(wash, price, pump)
    IN  IF score >= 75 * 10000 THEN "CRITICAL"
        ELSE IF score >= 50 * 10000 THEN "HIGH"
        ELSE IF score >= 25 * 10000 THEN "MEDIUM"
        ELSE IF score > 0 THEN "LOW"
        ELSE "MINIMAL"

\* The results of the three detectors, as far as the score reads them: the
\* suspicious volume is that of the detected wallets, the high-confidence
\* schemes are some of the schemes.
InitScore ==
    /\ \E detected_count \in {0, 1, 2, 8, 9, 12},
          volume \in {500, 5000, 99999, 100000, 250000},
          manipulation_count \in {0, 1, 2, 3, 5},
          coordinated_count \in {0, 1, 4, 5, 6},
          num_schemes \in 0..3 :
       \E high_conf \in 0..num_schemes :
          data = [wash |-> [detected_count |-> detected_count,
                            total_suspicious_volume |->
                                IF detected_count = 0 THEN 0 ELSE volume],
                  price |-> [manipulation_events |-> [i \in 1..manipulation_count |-> i],
                             coordinated_trading |-> [i \in 1..coordinated_count |-> i]],
                  pump |-> [num_schemes |-> num_schemes,
                            high_confidence |-> [i \in 1..high_conf |-> i]]]
    /\ pc = 0
    /\ result = Idle
    /\ attacks_found = Idle
    /\ heap = Idle
    /\ locals = Idle
    /\ now = Idle
    /\ config = Idle

\* The two last entries analyze_token compiles into its results.
CalculateRisk ==
    /\ pc = 0
    /\ pc' = 1
    /\ result' = [risk_score |-> CalculateRiskScore(data.wash, data.price, data.pump),
                  risk_level |-> GetRiskLevel(data.wash, data.price, data.pump)]
    /\ UNCHANGED <<data, attacks_found, heap, locals, now, config>>

SpecScore == InitScore /\ [][CalculateRisk]_vars

\* Detector results without findings.
NoWash == [detected_count |-> 0, total_suspicious_volume |-> 0]
NoPrice == [manipulation_events |-> <<>>, coordinated_trading |-> <<>>]
NoPump == [num_schemes |-> 0, high_confidence |-> <<>>]

\* C25: the risk score is in [0, 100]; the wash-trading part contributes at
\* most 35, the price-manipulation part at most 35 and the pump-and-dump
\* part at most 30; the level is CRITICAL for a score >= 75, HIGH for >= 50,
\* MEDIUM for >= 25, LOW for a score > 0 and MINIMAL only for 0; and the
\* score is 0 if and only if there are no suspicious wallets, no
\* manipulation events, no coordinated blocks and no schemes.
C25_RiskScoreBoundedAndBanded ==
    pc = 1 =>
        /\ result.risk_score >= 0
        /\ result.risk_score <= 100 * 10000
        /\ result.risk_score - CalculateRiskScore(NoWash, data.price, data.pump)
              \in 0..(35 * 10000)
        /\ result.risk_score - CalculateRiskScore(data.wash, NoPrice, data.pump)
              \in 0..(35 * 10000)
        /\ result.risk_score - CalculateRiskScore(data.wash, data.price, NoPump)
              \in 0..(30 * 10000)
        /\ result.risk_level =
              (CASE result.risk_score >= 750000 -> "CRITICAL"
                 [] result.risk_score >= 500000 /\ result.risk_score < 750000 -> "HIGH"
                 [] result.risk_score >= 250000 /\ result.risk_score < 500000 -> "MEDIUM"
                 [] result.risk_score > 0 /\ result.risk_score < 250000 -> "LOW"
                 [] OTHER -> "MINIMAL")
        /\ result.risk_score = 0
              <=> /\ data.wash.detected_count = 0
                  /\ data.price.manipulation_events = <<>>
                  /\ data.price.coordinated_trading = <<>>
                  /\ data.pump.num_schemes = 0

\* Nine wallets with $100,000 (35), three events and five blocks (35), one
\* scheme of low confidence (5): exactly 75, CRITICAL.
C25_Witness ==
    /\ pc = 1
    /\ data.wash.detected_count = 9
    /\ data.wash.total_suspicious_volume = 100000
    /\ Len(data.price.manipulation_events) = 3
    /\ Len(data.price.coordinated_trading) = 5
    /\ data.pump.num_schemes = 1
    /\ data.pump.high_confidence = <<>>
    /\ result.risk_score = 75 * 10000
    /\ result.risk_level = "CRITICAL"

----------------------------------------------------------------------------
(* MoralisSwapDataFetcher.fetch_token_swaps, one request per step *)

MaxPages == 3        \* the largest max_pages, and the responses scripted

\* What the provider may answer to the k-th request: a request error (a
\* connection failure or an error status), a body without "result", an
\* empty result, or a page of one or two transactions with a cursor,
\* without the key or with an empty cursor.
Response(k, kind) ==
    [error |-> kind = "error",
     has_result |-> kind # "no result key",
     result |-> CASE kind = "page, cursor" -> <<<<k, 1>>, <<k, 2>>>>
                  [] kind \in {"page, no cursor key", "page, empty cursor"} -> <<<<k, 1>>>>
                  [] OTHER -> <<>>,
     has_cursor |-> kind \in {"no result key", "empty result", "page, cursor",
                              "page, empty cursor"},
     cursor |-> IF kind = "page, empty cursor" THEN "" ELSE "next"]

InitFetch ==
    /\ config \in [max_pages : 0..MaxPages]
    /\ \E kinds \in [1..MaxPages ->
                        {"error", "no result key", "empty result", "page, cursor",
                         "page, no cursor key", "page, empty cursor"}] :
          data = [k \in 1..MaxPages |-> Response(k, kinds[k])]
    /\ locals = [all_transactions |-> <<>>, cursor |-> "", page |-> 0, requests |-> 0]
    /\ pc = "while"
    /\ result = Idle
    /\ attacks_found = Idle
    /\ heap = Idle
    /\ now = Idle

\* The loop body where a page without a cursor is not kept.
FetchPageMutDropLast ==
    /\ pc = "while"
    /\ locals.page < config.max_pages
    /\ LET response == data[locals.requests + 1]
       IN  IF ~response.error /\ response.has_result /\ response.result # <<>>
              /\ response.has_cursor /\ response.cursor # ""
           THEN /\ locals' = [all_transactions |-> locals.all_transactions \o response.result,
                              cursor |-> response.cursor,
                              page |-> locals.page + 1,
                              requests |-> locals.requests + 1]
                /\ pc' = "while"
           ELSE /\ locals' = [locals EXCEPT !.requests = locals.requests + 1]
                /\ pc' = "return"
    /\ UNCHANGED <<data, result, attacks_found, heap, now, config>>
\* One pass through the body of the while loop: the request and what is
\* done with its response.
FetchPage ==
    /\ pc = "while"
    /\ locals.page < config.max_pages
    /\ LET response == data[locals.requests + 1]
       IN  IF response.error
           THEN /\ locals' = [locals EXCEPT !.requests = locals.requests + 1]
                /\ pc' = "return"
           ELSE IF response.has_result /\ response.result # <<>>
           THEN IF response.has_cursor /\ response.cursor # ""
                THEN /\ locals' = [all_transactions |->
                                      locals.all_transactions \o response.result,
                                   cursor |-> response.cursor,
                                   page |-> locals.page + 1,
                                   requests |-> locals.requests + 1]
                     /\ pc' = "while"
                ELSE /\ locals' = [locals EXCEPT
                                      !.all_transactions =
                                          locals.all_transactions \o response.result,
                                      !.requests = locals.requests + 1]
                     /\ pc' = "return"
           ELSE /\ locals' = [locals EXCEPT !.requests = locals.requests + 1]
                /\ pc' = "return"
    /\ UNCHANGED <<data, result, attacks_found, heap, now, config>>

\* The loop is left, by break or because page reached max_pages, and the
\* list is returned.
ReturnAllTransactions ==
    /\ \/ pc = "return"
       \/ pc = "while" /\ locals.page >= config.max_pages
    /\ pc' = "returned"
    /\ result' = [raised |-> FALSE, returned |-> locals.all_transactions]
    /\ UNCHANGED <<data, locals, attacks_found, heap, now, config>>

\* The interpreter keeps running the call.
SpecFetch ==
    /\ InitFetch
    /\ [][FetchPage \/ ReturnAllTransactions]_vars
    /\ WF_vars(FetchPage \/ ReturnAllTransactions)

\* The k-th response ends the fetch: an error, no results or no cursor.
Stops(k) ==
    \/ data[k].error
    \/ ~data[k].has_result \/ data[k].result = <<>>
    \/ ~data[k].has_cursor \/ data[k].cursor = ""

\* The number of requests the responses call for.
RequestsDue ==
    IF \E k \in 1..config.max_pages : Stops(k)
    THEN CHOOSE k \in 1..config.max_pages : Stops(k) /\ \A j \in 1..(k - 1) : ~Stops(j)
    ELSE config.max_pages

\* The result pages received with the first n responses, in request order.
RECURSIVE PagesReceived(_)
PagesReceived(n) ==
    IF n = 0 THEN <<>>
    ELSE PagesReceived(n - 1)
         \o (IF data[n].error \/ ~data[n].has_result THEN <<>> ELSE data[n].result)

----------------------------------------------------------------------------
(* The same batch analysed by the systems of the three presets *)

\* The batch, latest first: 42 quiet trades of $100 at price 100 on pair P;
\* a wallet that buys once on pair W and sells one to five times within the
\* hour at the same price, in blocks of their own or all in one block; a
\* trade on P at minute 10 that lifts the price by 12% to 80%, worth $2,000
\* to $20,000; and 5, 10 or 15 wallets that sell all at a price 20%, 35% or
\* 45% lower, $12,000 each.  The trade varies, or the dump, or the wash
\* wallet, around a batch with three sells of $400, a rise of 60% worth
\* $6,000 and ten wallets that sell 35% lower.
InitSensitivity ==
    /\ \E scenario \in
            ({112, 117, 125, 130, 160, 180} \X {2000, 6000, 20000} \X {10} \X {35}
                \X {3} \X {400} \X {FALSE})
            \cup ({160, 180} \X {6000} \X {5, 10, 15} \X {20, 35, 45}
                    \X {3} \X {400} \X {FALSE})
            \cup ({160} \X {6000} \X {10} \X {35} \X {1, 2, 3, 5}
                    \X {100, 400, 2000} \X BOOLEAN) :
          LET pump_price == scenario[1]
              usd == scenario[2]
              dumpers == scenario[3]
              drop == scenario[4]
              sells == scenario[5]
              wash_usd == scenario[6]
              same_block == scenario[7]
              wallets == <<"0x01", "0x02", "0x03", "0x04", "0x05", "0x06", "0x07",
                           "0x08", "0x09", "0x10", "0x11", "0x12", "0x13", "0x14",
                           "0x15">>
              ascending ==
                  [i \in 1..42 |->
                      RawSwap(<<i, 0>>, 0, "buy", i, 0, "0xf", "P", 1, 1, 100, 100, "")]
                  \o <<RawSwap(<<43, 0>>, 0, "buy", 43, 1, "0xw", "W", 1, 1, wash_usd,
                               100, "")>>
                  \o [i \in 1..sells |->
                        RawSwap(<<43 + i, i>>, i, "sell",
                                IF same_block THEN 43 ELSE 43 + i, 1 + i, "0xw", "W",
                                1, 1, wash_usd, 100, "")]
                  \o <<RawSwap(<<50, 0>>, 0, "buy", 50, 10, "0xa", "P", 1, 1, usd,
                               pump_price, "")>>
                  \o [i \in 1..dumpers |->
                        RawSwap(<<50 + i, 0>>, 0, "sell", 50 + i, 10 + i, wallets[i],
                                "P", 1, 1, 12000, (pump_price * (100 - drop)) \div 100,
                                "sellAll")]
          IN  data = [i \in 1..Len(ascending) |-> ascending[Len(ascending) + 1 - i]]
    /\ pc = 0
    /\ result = <<>>
    /\ attacks_found = Idle
    /\ heap = Idle
    /\ locals = Idle
    /\ now = Idle
    /\ config = Idle

\* CryptoAnomalyDetectionSystem(key, sensitivity).analyze_token on the
\* batch the fetcher returns: the three detectors of the preset, the risk
\* score and the risk level.  The systems are independent objects; the
\* caller runs low first, then medium, then high.
AnalyzeToken(sensitivity) ==
    /\ pc < 3
    /\ sensitivity = <<"low", "medium", "high">>[pc + 1]
    /\ pc' = pc + 1
    /\ \E system \in {CryptoAnomalyDetectionSystemInit(sensitivity)} :
       \E wash_results \in {WashDetect(data, system.wash_detector)},
          price_results \in {PriceManipulationDetect(data, system.price_detector)},
          pump_results \in {PumpAndDumpDetect(data, system.pump_detector)} :
          result' = (sensitivity :>
                        IF data = <<>> THEN [none |-> TRUE]
                        ELSE [none |-> FALSE,
                              total_transactions |-> Len(data),
                              wash_trading |-> wash_results,
                              price_manipulation |-> price_results,
                              pump_and_dump |-> pump_results,
                              risk_score |-> CalculateRiskScore(wash_results,
                                                  price_results, pump_results),
                              risk_level |-> GetRiskLevel(wash_results, price_results,
                                                  pump_results)])
                    @@ result
    /\ UNCHANGED <<data, attacks_found, heap, locals, now, config>>

SpecSensitivity ==
    InitSensitivity /\ [][\E sensitivity \in {"low", "medium", "high"} : AnalyzeToken(sensitivity)]_vars

\* The order of the presets, from least to most sensitive.
SensitivityRank(sensitivity) ==
    CASE sensitivity = "low" -> 1 [] sensitivity = "medium" -> 2 [] OTHER -> 3

\* What a system reported: the suspicious wallets, the manipulation events
\* and the pump trades confirmed as schemes.
SuspiciousAt(sensitivity) == DOMAIN result[sensitivity].wash_trading.suspicious_wallets
EventsAt(sensitivity) == {result[sensitivity].price_manipulation.manipulation_events[k] : k \in DOMAIN result[sensitivity].price_manipulation.manipulation_events}
SchemesAt(sensitivity) == {<<result[sensitivity].pump_and_dump.detected_schemes[k].pump_time, result[sensitivity].pump_and_dump.detected_schemes[k].pump_price_increase>> : k \in DOMAIN result[sensitivity].pump_and_dump.detected_schemes}

\* C27: raising the sensitivity never removes a finding: every suspicious
\* wallet, every manipulation event and every pump trade confirmed as a
\* scheme under low is reported under medium, and everything reported under
\* medium is reported under high.
C27_SensitivityMonotone ==
    \A lower, higher \in DOMAIN result :
        SensitivityRank(lower) <= SensitivityRank(higher) =>
            /\ SuspiciousAt(lower) \subseteq SuspiciousAt(higher)
            /\ EventsAt(lower) \subseteq EventsAt(higher)
            /\ SchemesAt(lower) \subseteq SchemesAt(higher)

\* The three systems have run on the batch at the centre: the wash wallet
\* with three round trips, the trade that lifts the price by 60% and the
\* dump by ten wallets are reported by medium and high and not by low.
C27_Witness ==
    /\ DOMAIN result = {"low", "medium", "high"}
    /\ SuspiciousAt("low") = {}
    /\ SuspiciousAt("medium") = {"0xw"}
    /\ SuspiciousAt("high") = {"0xw"}
    /\ SchemesAt("low") = {}
    /\ SchemesAt("medium") # {}
    /\ SchemesAt("medium") \subseteq SchemesAt("high")
    /\ EventsAt("low") = {}
    /\ EventsAt("medium") # {}
    /\ EventsAt("medium") \subseteq EventsAt("high")

----------------------------------------------------------------------------
(* The same events of a block analysed in two orders *)

\* The events of block 1: a buy and a sell of 0xa and a buy of 0xb on pair
\* P, with or without a second buy of 0xa, each at a transaction index of
\* 0..2, so that two events may carry the same index.
InitOrder ==
    /\ \E buy_idx \in 0..2, victim_idx \in 0..2, sell_idx \in 0..2, again_idx \in 0..3 :
          data = <<RawSwap(<<1, "sell">>, sell_idx, "sell", 1, 1, "0xa", "P", 1, 1, 100, 1, ""),
                   RawSwap(<<1, "victim">>, victim_idx, "buy", 1, 1, "0xb", "P", 1, 1, 100, 1, ""),
                   RawSwap(<<1, "buy">>, buy_idx, "buy", 1, 1, "0xa", "P", 1, 1, 100, 1, "")>>
                 \o (IF again_idx = 3 THEN <<>>
                     ELSE <<RawSwap(<<1, "again">>, again_idx, "buy", 1, 1, "0xa", "P",
                                    1, 1, 100, 1, "")>>)
    /\ pc = 0
    /\ result = <<>>
    /\ attacks_found = Idle
    /\ heap = Idle
    /\ locals = Idle
    /\ now = Idle
    /\ config = Idle

\* analyze() of a fresh SandwichAttackAnalyzer whose fetch returns the events
\* of the batch in the given order: first as supplied, then permuted.
AnalyzeInOrder(order) ==
    /\ pc < 2
    /\ pc = 0 => order = [i \in DOMAIN data |-> i]
    /\ pc' = pc + 1
    /\ result' = Append(result,
                    SandwichFindings(ParseAll([i \in DOMAIN data |-> data[order[i]]]).swaps))
    /\ UNCHANGED <<data, attacks_found, heap, locals, now, config>>

SpecOrder ==
    InitOrder /\ [][\E order \in Permutations(DOMAIN data) : AnalyzeInOrder(order)]_vars

\* The findings of a run as a set of (attacker, front run, victim
\* transaction, back run).
FindingSet(attacks) ==
    {<<attacks[k].attacker_address, attacks[k].front_run_tx.transaction_hash,
       attacks[k].victim_tx.transaction_hash, attacks[k].back_run_tx.transaction_hash>> :
        k \in DOMAIN attacks}

\* C28: the set of sandwich findings of a batch does not depend on the
\* order in which its events are supplied: every permutation of the same
\* events yields the same set of findings.
C28_FindingsOrderIndependent ==
    \A i, j \in DOMAIN result : FindingSet(result[i]) = FindingSet(result[j])

----------------------------------------------------------------------------
(* The pool-domination endpoint of the API *)

\* app.py lines 795-799: the dictionary the handler indexes with
\* dom.risk_level.
RiskExplanation ==
    [HIGH |-> "Single entity controls dangerous amount of pool liquidity",
     MEDIUM |-> "Significant concentration of trading power",
     LOW |-> "Minor concentration within acceptable limits"]

\* detect_pool_domination with the API key configured: analyze, then one
\* formatted entry per finding.  Indexing the dictionary with a key it does
\* not hold raises KeyError, which the handler's except turns into
\* HTTPException(500).  The second fetch (line 811) is taken to succeed.
DetectPoolDomination ==
    /\ pc = 0
    /\ pc' = 1
    /\ \E parsed \in {ParsePoolData(data)} :
       \E dominations \in {PoolDominationAnalyze(parsed.swaps)} :
          result' =
             IF ~parsed.ok
             THEN [analyzed |-> FALSE, status_code |-> 500, found |-> <<>>, dominations |-> <<>>]
             ELSE IF \E i \in DOMAIN dominations :
                        dominations[i].risk_level \notin DOMAIN RiskExplanation
             THEN [analyzed |-> TRUE, status_code |-> 500, found |-> dominations,
                   dominations |-> <<>>]
             ELSE [analyzed |-> TRUE, status_code |-> 200, found |-> dominations,
                   dominations |->
                      [i \in DOMAIN dominations |->
                          [dominant_wallet |-> dominations[i].dominant_wallet,
                           domination_percentage |-> dominations[i].domination_percentage,
                           wallet_transactions |-> dominations[i].wallet_transactions,
                           total_transactions |-> dominations[i].total_transactions,
                           wallet_volume_usd |-> dominations[i].wallet_volume_usd,
                           total_volume_usd |-> dominations[i].total_volume_usd,
                           transaction_pattern |-> dominations[i].transaction_pattern,
                           risk_level |-> dominations[i].risk_level,
                           risk_explanation |-> RiskExplanation[dominations[i].risk_level],
                           manipulation_likelihood |-> dominations[i].manipulation_likelihood]]]
    /\ UNCHANGED <<data, attacks_found, heap, locals, now, config>>

SpecEndpoint == InitDomination /\ [][DetectPoolDomination]_vars

\* C29: whenever PoolDominationDetector.analyze succeeds the endpoint
\* answers successfully, with one formatted entry (risk explanation
\* included) for every finding, whatever its risk_level: MEDIUM, HIGH or
\* CRITICAL.
C29_EndpointFormatsEveryFinding ==
    (pc = 1 /\ result.analyzed) =>
        /\ result.status_code = 200
        /\ Len(result.dominations) = Len(result.found)
        /\ \A i \in DOMAIN result.found :
              /\ result.dominations[i].dominant_wallet = result.found[i].dominant_wallet
              /\ result.dominations[i].risk_level = result.found[i].risk_level
              /\ result.dominations[i].risk_explanation # ""

----------------------------------------------------------------------------
(* The volume spike of the first trades of a pair *)

\* The low, the medium or the high preset, or a detector with the price and
\* value thresholds at 0 and a volume multiplier of 0, 1, 2, 19, 20 or 25.
\* The batch, latest block first: with or without three trades on pair Q in
\* the oldest blocks, then on pair P a number of trades worth nothing or
\* $100 each, one trade worth $0, $6,000 or $20,000 and up to two more
\* trades, one per block, every price 50% above or a third below the one
\* before.
InitSpike ==
    /\ config \in {PriceManipulationDetectorInit(20, 15, 10000),
                   PriceManipulationDetectorInit(15, 10, 5000),
                   PriceManipulationDetectorInit(10, 5, 1000)}
                  \cup {PriceManipulationDetectorInit(0, multiplier, 0) :
                            multiplier \in {0, 1, 2, 19, 20, 25}}
    /\ \E other \in BOOLEAN,
          quiet \in {0, 1, 2, 5, 9, 10, 14, 15, 18, 19, 20, 21},
          small \in {0, 100},
          usd \in {0, 6000, 20000},
          tail \in {0, 2} :
          LET price(i) == IF i % 2 = 1 THEN 100 ELSE 150
              ascending ==
                  (IF other THEN [i \in 1..3 |->
                                    RawSwap(<<i, 0>>, 0, "buy", i, i, "0xb", "Q", 1, 1,
                                            100, price(i), "")]
                   ELSE <<>>)
                  \o [i \in 1..quiet |->
                        RawSwap(<<10 + i, 0>>, 0, "buy", 10 + i, 10 + i, "0xf", "P", 1, 1,
                                small, price(i), "")]
                  \o <<RawSwap(<<11 + quiet, 0>>, 0, "buy", 11 + quiet, 11 + quiet, "0xa",
                               "P", 1, 1, usd, price(quiet + 1), "")>>
                  \o [i \in 1..tail |->
                        RawSwap(<<11 + quiet + i, 0>>, 0, "sell", 11 + quiet + i,
                                11 + quiet + i, "0xf", "P", 1, 1, small,
                                price(quiet + 1 + i), "")]
          IN  data = [i \in 1..Len(ascending) |-> ascending[Len(ascending) + 1 - i]]
    /\ pc = 0
    /\ result = Idle
    /\ attacks_found = Idle
    /\ heap = Idle
    /\ locals = Idle
    /\ now = Idle

SpecSpike == InitSpike /\ [][DetectPrice]_vars

\* The place of the trade of the given block among the trades of its pair,
\* in block order, counted from 1.
PlaceInPair(block) ==
    LET i == CHOOSE j \in DOMAIN data : data[j].blockNumber = block
    IN  Cardinality({j \in DOMAIN data : /\ data[j].pairAddress = data[i].pairAddress
                                         /\ data[j].blockNumber <= block})

\* C30: with non-negative USD values the volume_spike of the k-th trade of
\* a pair is at most min(k, 20), the trailing mean including the trade
\* itself; so no manipulation event is reported among the first
\* volume_multiplier trades of a pair (the first 10 at medium sensitivity,
\* the first 15 at low), and none at all when volume_multiplier is 20 or
\* more.
C30_VolumeSpikeBoundedByPlace ==
    pc = 1 =>
        LET found == result.manipulation_events
        IN  /\ \A q \in DOMAIN found :
                  /\ found[q].volume_spike[1]
                        <= Min(PlaceInPair(found[q].block), 20) * found[q].volume_spike[2]
                  /\ PlaceInPair(found[q].block) > config.volume_multiplier
            /\ config.volume_multiplier >= 20 => found = <<>>

\* At medium sensitivity the eleventh trade of a pair, worth $6,000 after
\* ten trades worth nothing, is an event with a volume spike of exactly 11.
C30_Witness ==
    /\ pc = 1
    /\ config = PriceManipulationDetectorInit(15, 10, 5000)
    /\ Len(result.manipulation_events) = 1
    /\ PlaceInPair(result.manipulation_events[1].block) = 11
    /\ result.manipulation_events[1].value_usd = 6000
    /\ result.manipulation_events[1].volume_spike[1]
          = 11 * result.manipulation_events[1].volume_spike[2]

============================================================================
